---------------------------- MODULE Spec2Model ----------------------------
(***************************************************************************)
(* Batch transcription pipeline of the Groq speech-to-text MCP server:     *)
(*   transcribeAudioTool -> mapWithConcurrency -> transcribeOne ->         *)
(*   groqCreateTranscription / fetchWithRetry -> saveTranscriptArtifact /  *)
(*   reserveTranscriptPath.                                                *)
(*                                                                         *)
(* Node runs the program on one thread: code between two awaits is atomic. *)
(* Every action below is the code that runs when one awaited I/O operation *)
(* (fetch, timer, file-system call) completes, up to the next await.       *)
(*                                                                         *)
(* Strings are sequences of tokens.  A token is one character (" ", "/",   *)
(* "_", ".", "-") or an alphanumeric chunk ("a", "txt", "transcript").     *)
(***************************************************************************)
EXTENDS Integers, Sequences, FiniteSets, TLC

VARIABLES
    apiKey,          \* process.env[config.apiKeyEnv]
    items,           \* effectiveItems (lines 456-466), 0-based
    concurrency,     \* params.concurrency
    response_format, \* params.response_format
    maxRetries,      \* config.maxRetries
    endpoint,        \* outcomes the transcription endpoint can give an attempt
    mainpc,          \* position of transcribeAudioTool
    nextIndex,       \* mapWithConcurrency: the shared cursor
    results,         \* mapWithConcurrency: the pre-sized result array
    worker,          \* mapWithConcurrency: one record per worker() call
    fs,              \* files of the transcripts directory: name -> writer
    clock,           \* Date.now() in milliseconds
    claimed,         \* history: how often each index was claimed
    written,         \* history: how often each result slot was written
    toolResult,      \* what transcribeAudioTool returned
    sample           \* the response or the item a pure function is applied to

vars == <<apiKey, items, concurrency, response_format, maxRetries, endpoint,
          mainpc, nextIndex, results, worker, fs, clock, claimed, written,
          toolResult, sample>>

inputs == <<apiKey, items, concurrency, response_format, maxRetries, endpoint,
            sample>>

-----------------------------------------------------------------------------
(* Bounds of the model.                                                    *)

MaxItems == 3
MaxSavers == 2
MaxRetries == 2
MaxMixed == 3

-----------------------------------------------------------------------------
(* Small helpers.                                                          *)

Min(a, b) == IF a < b THEN a ELSE b
Max(a, b) == IF a > b THEN a ELSE b
Last(s) == s[Len(s)]
Front(s) == SubSeq(s, 1, Len(s) - 1)

N == Cardinality(DOMAIN items)
Indices == 0 .. (N - 1)
Workers == DOMAIN worker
WorkerIds == 1 .. MaxItems


-----------------------------------------------------------------------------
(* Strings: character classes of the regular expressions of                *)
(* services/transcripts.ts.                                                *)

Whitespace == {" "}
\* characters outside [a-zA-Z0-9._-] that occur in the model's inputs
UnsafeChars == {" ", "/", "*", "\\"}
IsAlnum(t) == t \notin (UnsafeChars \cup {"_", ".", "-"})

toLowerCase(t) == CASE t = "TXT" -> "txt" [] t = "JSON" -> "json" [] OTHER -> t

RECURSIVE trimStart(_)
trimStart(s) == IF s # << >> /\ Head(s) \in Whitespace THEN trimStart(Tail(s)) ELSE s

RECURSIVE trimEnd(_)
trimEnd(s) == IF s # << >> /\ Last(s) \in Whitespace THEN trimEnd(Front(s)) ELSE s

trim(s) == trimEnd(trimStart(s))

\* line 92 alone, s.replace(/_+/g, "_"): the unsafe characters are kept
RECURSIVE collapseUnderscores(_)
collapseUnderscores(s) ==
    IF s = << >> THEN << >>
    ELSE LET rest == collapseUnderscores(Tail(s))
         IN  IF Head(s) = "_" /\ rest # << >> /\ Head(rest) = "_"
             THEN rest ELSE <<Head(s)>> \o rest

\* s.replace(/[^a-zA-Z0-9._-]+/g, "_") followed by s.replace(/_+/g, "_"):
\* every maximal run of unsafe characters and underscores becomes one "_".
RECURSIVE replaceAndCollapse(_)
replaceAndCollapse(s) ==
    IF s = << >> THEN << >>
    ELSE LET c == IF Head(s) \in UnsafeChars THEN "_" ELSE Head(s)
             rest == replaceAndCollapse(Tail(s))
         IN  IF c = "_" /\ rest # << >> /\ Head(rest) = "_" THEN rest ELSE <<c>> \o rest

RECURSIVE stripLeadingUnderscores(_)
stripLeadingUnderscores(s) ==
    IF s # << >> /\ Head(s) = "_" THEN stripLeadingUnderscores(Tail(s)) ELSE s

RECURSIVE stripTrailingUnderscores(_)
stripTrailingUnderscores(s) ==
    IF s # << >> /\ Last(s) = "_" THEN stripTrailingUnderscores(Front(s)) ELSE s

SEGMENT_MAX_LENGTH == 120

sanitizeSegment(segment) ==
    LET collapsed == replaceAndCollapse(trim(segment))
        stripped == stripTrailingUnderscores(stripLeadingUnderscores(collapsed))
        sliced == SubSeq(stripped, 1, Min(Len(stripped), SEGMENT_MAX_LENGTH))
    IN  IF sliced = << >> THEN <<"transcript">> ELSE sliced

\* s.match(/\.([a-zA-Z0-9]+)$/): the characters after the last dot when there
\* is at least one and all of them are alphanumeric; << >> when no match.
RECURSIVE alnumSuffix(_)
alnumSuffix(s) ==
    IF s # << >> /\ IsAlnum(Last(s)) THEN alnumSuffix(Front(s)) \o <<Last(s)>> ELSE << >>

extensionOf(s) ==
    LET tail == alnumSuffix(s)
        dotAt == Len(s) - Len(tail)
    IN  IF tail # << >> /\ dotAt >= 1 /\ s[dotAt] = "." THEN tail ELSE << >>

\* s.replace(/\.[a-zA-Z0-9]+$/, "")
withoutExtension(s) ==
    IF extensionOf(s) = << >> THEN s ELSE SubSeq(s, 1, Len(s) - Len(extensionOf(s)) - 1)

\* path.basename: what follows the last "/"
RECURSIVE basename(_)
basename(p) ==
    IF p = << >> \/ Last(p) = "/" THEN << >> ELSE basename(Front(p)) \o <<Last(p)>>

\* s.split("/").filter(Boolean): the non-empty segments
RECURSIVE splitSegments(_, _)
splitSegments(p, acc) ==
    IF p = << >> THEN (IF acc = << >> THEN << >> ELSE <<acc>>)
    ELSE IF Head(p) = "/"
         THEN (IF acc = << >> THEN << >> ELSE <<acc>>) \o splitSegments(Tail(p), << >>)
         ELSE splitSegments(Tail(p), acc \o <<Head(p)>>)

\* A url is <<hostname, pathname>>; the schema admits only strings that parse.
baseNameFromUrl(url) ==
    LET segs == splitSegments(url[2], << >>)
        last == IF segs = << >> THEN <<url[1]>> ELSE Last(segs)
        withoutExt == withoutExtension(last)
    IN  sanitizeSegment(IF Len(withoutExt) > 0 THEN withoutExt ELSE <<"audio">>)

deriveTranscriptBaseName(source) ==
    IF source.file_path # << >>
    THEN sanitizeSegment(withoutExtension(basename(source.file_path)))
    ELSE IF source.url # << >> THEN baseNameFromUrl(source.url)
    ELSE <<"transcript">>

\* timestampSlug: YYYYMMDDThhmmssSSSZ, one slug per millisecond
timestampSlug(date) == <<"T", ToString(date), "Z">>

-----------------------------------------------------------------------------
(* services/files.ts: the audio files of the environment.                  *)

GROQ_MAX_ATTACHMENT_BYTES == 26214400

\* fs.stat of an input path: <<found, isFile, size>>
StatOfInput(file_path) ==
    CASE file_path = <<"/", "d", "/", "a", ".", "wav">>       -> <<TRUE, TRUE, 3>>
      [] file_path = <<"/", "d", "/", "cap", ".", "wav">>     -> <<TRUE, TRUE, GROQ_MAX_ATTACHMENT_BYTES>>
      [] file_path = <<"/", "d", "/", "big", ".", "wav">>     -> <<TRUE, TRUE, GROQ_MAX_ATTACHMENT_BYTES + 1>>
      [] file_path = <<"/", "d", "/", "empty", ".", "wav">>   -> <<TRUE, TRUE, 0>>
      [] file_path = <<"/", "d">>                             -> <<TRUE, FALSE, 4096>>
      [] OTHER                                                -> <<FALSE, FALSE, 0>>

\* lines 47-66 without the isFile test of lines 50-52
readAudioFileErrorNoFileTest(stat) ==
    IF ~stat[1] THEN "file_not_found"
    ELSE IF stat[3] = 0 THEN "file_empty"
    ELSE IF stat[3] > GROQ_MAX_ATTACHMENT_BYTES THEN "file_too_large"
    ELSE ""

\* readAudioFile after fs.stat: the FileInputError code, "" when the file is read
readAudioFileError(stat) ==
    IF ~stat[1] THEN "file_not_found"
    ELSE IF ~stat[2] THEN "file_path_not_a_file"
    ELSE IF stat[3] = 0 THEN "file_empty"
    ELSE IF stat[3] > GROQ_MAX_ATTACHMENT_BYTES THEN "file_too_large"
    ELSE ""

\* The character "\0" of a path
NullByte == "NUL"

\* readAudioFile lines 40-66: a path with a null byte is refused before
\* fs.stat is called
readAudioFileCode(file_path) ==
    IF \E k \in DOMAIN file_path : file_path[k] = NullByte
    THEN "invalid_file_path"
    ELSE readAudioFileError(StatOfInput(file_path))

-----------------------------------------------------------------------------
(* services/groqAudio.ts: fetchWithRetry.                                  *)

\* line 106 without the first attempt counted
maxAttemptsRetriesOnly == Max(1, maxRetries)

\* line 106
maxAttempts == Max(1, maxRetries + 1)

ResponseOk(status) == status >= 200 /\ status <= 299

\* lines 121-126 widened to every error status
retryableAnyError(status) == status >= 400

\* lines 121-126
retryable(status) == status \in {429, 500, 502, 503, 504}

\* line 128 without its condition: every response is handed back
ReturnsAnyResponse(status, attempt) == TRUE

\* line 128: the response is handed back to the caller
ReturnsResponse(status, attempt) ==
    ResponseOk(status) \/ ~retryable(status) \/ attempt = maxAttempts

\* line 135 without its condition: every exception is rethrown
RethrowsAlways(attempt) == TRUE

\* line 135: the exception is rethrown
Rethrows(attempt) == attempt = maxAttempts

-----------------------------------------------------------------------------
(* tools/transcribe.ts: result records.  A field a result does not carry   *)
(* holds Null (strings), 0 (status) or << >> (paths).                      *)

Null == "null"

\* The body of the response to attempt `attempt` of the request of item
\* `item`; cut = n > 0 stands for its first n characters followed by the
\* truncation marker
Body(item, attempt) == [item |-> item, attempt |-> attempt, cut |-> 0]
NoBody == Body(-1, 0)

\* The length in characters of the body the endpoint sends with an error
\* status: at the limit of the preview for 500, beyond it for 404 and 504
ERROR_BODY_LIMIT == 4000

ErrorBodyLength(status) ==
    CASE status = 500 -> ERROR_BODY_LIMIT
      [] status \in {404, 504} -> ERROR_BODY_LIMIT + 1
      [] OTHER -> 25

\* lines 108-112 handing the body on whole
truncateBodyNever(body, length) == [body |-> body, truncated |-> FALSE]

\* lines 108-112: a body longer than the limit is cut to the limit
truncateBody(body, length) ==
    IF length <= ERROR_BODY_LIMIT
    THEN [body |-> body, truncated |-> FALSE]
    ELSE [body |-> [body EXCEPT !.cut = ERROR_BODY_LIMIT], truncated |-> TRUE]

EmptySlot ==
    [filled |-> FALSE, index |-> -1, id |-> << >>, ok |-> FALSE, code |-> Null,
     status |-> 0, body |-> NoBody, body_truncated |-> FALSE, message |-> << >>, transcript |-> NoBody,
     saved |-> FALSE, saved_path |-> << >>, save_error |-> Null,
     saved_format |-> Null, attempts |-> 0, sleeps |-> 0, bodiesBuilt |-> 0,
     sent |-> << >>, discards |-> 0, abortedBy |-> {}, timersLeft |-> {},
     checked |-> << >>, log |-> << >>]

\* line 51 testing for the json encoding: verbose_json is saved as text
ExtensionTxtUnlessJson(fmt) == IF fmt = "json" THEN "json" ELSE "txt"

\* Extension and format of the artifact (saveTranscriptArtifact, lines 51-56)
ExtensionFor(fmt) == IF fmt = "text" THEN "txt" ELSE "json"
FormatFor(fmt) == IF ExtensionFor(fmt) = "txt" THEN "text" ELSE "json"

\* transcribeOne line 315: the format reported when the save failed
SaveErrorFormat(fmt) == IF fmt = "text" THEN "text" ELSE "json"

WithHistory(res, wr) ==
    [res EXCEPT !.attempts = wr.calls, !.sleeps = wr.sleeps,
                !.bodiesBuilt = wr.bodies, !.sent = wr.sent,
                !.discards = wr.discards, !.abortedBy = wr.abortedBy,
                !.timersLeft = wr.timers, !.checked = wr.checked, !.log = wr.log]

\* lines 518-534: the list entry of item `index`
ListEntry(index, ok) ==
    [EmptySlot EXCEPT !.filled = TRUE, !.index = index, !.id = items[index].id,
                      !.ok = ok]

\* lines 348-354 and asListFailure: a FileInputError
FileFailure(index, code) ==
    [ListEntry(index, FALSE) EXCEPT !.code = code, !.message = <<code>>]

\* the catch of lines 347-372 without the HttpError branch of lines 356-365
HttpFailureAsUnexpected(index, status, body) ==
    [ListEntry(index, FALSE) EXCEPT !.code = "unexpected_error",
                                    !.message = <<"Groq API error", ToString(status)>>]

\* lines 356-365 without the body of line 363
HttpFailureWithoutBody(index, status, body) ==
    [ListEntry(index, FALSE) EXCEPT !.code = "groq_api_error", !.status = status,
                                    !.message = <<"Groq API request failed", ToString(status)>>]

\* lines 356-365 and asListFailure: an HttpError
HttpFailure(index, status, body) ==
    [ListEntry(index, FALSE) EXCEPT !.code = "groq_api_error", !.status = status,
                                    !.body = truncateBody(body, ErrorBodyLength(status)).body,
                                    !.body_truncated =
                                        truncateBody(body, ErrorBodyLength(status)).truncated,
                                    !.message = <<"Groq API request failed", ToString(status)>>]

\* the catch of line 347 passing on an error it does not recognise: the item
\* is left without a result
UnknownErrorRethrown(index, exception) == EmptySlot

\* lines 368-372 and asListFailure: any other exception
UnexpectedFailure(index, exception) ==
    [ListEntry(index, FALSE) EXCEPT !.code = "unexpected_error", !.message = exception]

\* lines 320-328 and 346: a success whose artifact was saved at `path`
SavedSuccess(index, transcript, path) ==
    [ListEntry(index, TRUE) EXCEPT !.transcript = transcript, !.saved = TRUE,
                                   !.saved_path = path,
                                   !.saved_format = FormatFor(response_format)]

\* the save error thrown past the catch of lines 311-318, into the catch of
\* lines 348-372
SaveErrorAsFailure(index, transcript, error) ==
    [ListEntry(index, FALSE) EXCEPT !.code = "unexpected_error", !.message = <<error>>]

\* lines 311-318, 327 and 346: a success whose artifact could not be saved
UnsavedSuccess(index, transcript, error) ==
    [ListEntry(index, TRUE) EXCEPT !.transcript = transcript, !.saved = FALSE,
                                   !.save_error = error,
                                   !.saved_format = SaveErrorFormat(response_format)]

-----------------------------------------------------------------------------
(* services/transcripts.ts: reserveTranscriptPath.                         *)

TRANSCRIPTS_DIR == <<"transcripts">>

\* path.join(dirPath, filename) for a filename without "/"
pathJoin(dirPath, filename) ==
    IF filename = <<".">> THEN dirPath
    ELSE IF filename = <<".", ".">> THEN << >>
    ELSE dirPath \o <<"/">> \o filename

\* The loop of lines 158-161 tries the suffixes 2 .. 10000.  The model keeps
\* the loop and shortens it.
SuffixLimit == 3

\* lines 141-144: the extension the save name provides, lower-cased
providedExtOf(saveAs) ==
    LET ext == extensionOf(sanitizeSegment(trim(saveAs)))
    IN  [k \in DOMAIN ext |-> toLowerCase(ext[k])]

\* line 145 without the comparison: any extension is accepted
ExtensionMismatchIgnored(saveAs, ext) == FALSE

\* line 145
ExtensionMismatch(saveAs, ext) ==
    providedExtOf(saveAs) # << >> /\ providedExtOf(saveAs) # <<ext>>

\* lines 148-149
ExplicitPath(saveAs, ext) ==
    LET safe == sanitizeSegment(trim(saveAs))
        filename == IF providedExtOf(saveAs) # << >> THEN safe ELSE safe \o <<".", ext>>
    IN  pathJoin(TRANSCRIPTS_DIR, filename)

\* lines 155 and 159: candidate i of the default naming; i = 1 is unsuffixed
Candidate(base, ts, i, ext) ==
    pathJoin(TRANSCRIPTS_DIR,
             base \o <<"_", "_">> \o ts
                  \o (IF i = 1 THEN << >> ELSE <<"_", "_", ToString(i)>>)
                  \o <<".", ext>>)

\* exists() answering false whatever is on disk
existsNever(filePath) == FALSE

\* fs.stat succeeds on the path
exists(filePath) == filePath \in DOMAIN fs

\* What was on disk when a candidate was looked up
Lookup(filePath) == [path |-> filePath, onDisk |-> filePath \in DOMAIN fs]

\* fs.writeFile with flag "w": an existing file is overwritten
WriteFailsNever(filePath) == FALSE

\* saveTranscriptArtifact line 78, flag "wx": fs.writeFile fails with EEXIST
\* when something is at the path
WriteFails(filePath) == exists(filePath)

-----------------------------------------------------------------------------
(* services/concurrency.ts: mapWithConcurrency, and the per-item function  *)
(* of transcribeAudioTool up to its first await.                           *)

DoneWorker ==
    [pc |-> "done", currentIndex |-> -1, attempt |-> 0, timers |-> {},
     fired |-> {}, abortedBy |-> {}, checked |-> << >>,
     log |-> << >>, calls |-> 0, bodies |-> 0, sent |-> << >>, sleeps |-> 0,
     discards |-> 0, body |-> NoBody, ts |-> << >>, i |-> 0, path |-> << >>, callNumber |-> 0]

\* The calls of fetch made so far, by the finished items and by the workers
TotalCalls ==
    Cardinality(UNION {{<<"item", i, k>> : k \in 1 .. results[i].attempts} :
                          i \in DOMAIN results})
    + Cardinality(UNION {{<<"worker", w, k>> : k \in 1 .. worker[w].calls} :
                            w \in DOMAIN worker})

\* The ordinal of the next call of fetch; an endpoint that does not answer by
\* call order does not observe it (0)
NextCallNumber == IF endpoint.byCallOrder THEN TotalCalls + 1 ELSE 0

\* line 115 with the form built once, before the loop: a later attempt
\* sends the form of the first one again
BeginAttemptSameBody(wr, k) ==
    [wr EXCEPT !.pc = "fetch", !.attempt = k, !.timers = @ \cup {k},
               !.bodies = IF k = 1 THEN 1 ELSE @,
               !.sent = Append(@, 1),
               !.calls = @ + 1, !.callNumber = NextCallNumber]

\* fetchWithRetry lines 109-117: attempt k arms its timer, makeBody() builds
\* a form (the forms of a request are numbered as they are built) and fetch
\* is called with it
BeginAttempt(wr, k) ==
    [wr EXCEPT !.pc = "fetch", !.attempt = k, !.timers = @ \cup {k},
               !.bodies = @ + 1, !.sent = Append(@, wr.bodies + 1),
               !.calls = @ + 1, !.callNumber = NextCallNumber]

\* makeForm lines 32-41: the request has file bytes or a url
HasSource(item) == item.file_path # << >> \/ item.url # << >>

\* fetchWithRetry lines 109-115 for a request with neither: attempt k arms
\* its timer and makeBody() throws while the arguments of fetch are
\* evaluated; no form is built and fetch is not called
MakeBodyFails(wr, k) ==
    [wr EXCEPT !.pc = "makeBody", !.attempt = k, !.timers = @ \cup {k}]

\* fetchWithRetry lines 108-117: the loop body of attempt k up to its await
StartAttempt(wr, k) ==
    IF HasSource(items[wr.currentIndex]) THEN BeginAttempt(wr, k)
    ELSE MakeBodyFails(wr, k)

\* transcribeOne lines 214-221 up to the first await
StartItem(index) ==
    LET fresh == [DoneWorker EXCEPT !.currentIndex = index]
    IN  IF items[index].file_path # << >>
        THEN [fresh EXCEPT !.pc = "stat"]
        ELSE StartAttempt(fresh, 1)

\* mapWithConcurrency line 44: the workers start one after the other, so the
\* first call of a worker comes after those of the workers before it
StartedInTurn(index) ==
    LET wr == StartItem(index)
        earlier == Cardinality({j \in 0 .. (index - 1) : items[j].file_path = << >>})
    IN  IF endpoint.byCallOrder /\ wr.pc = "fetch"
        THEN [wr EXCEPT !.callNumber = earlier + 1]
        ELSE wr

\* JavaScript numbers: twice / 2 for a finite one (so that halves can be
\* told from whole numbers), NaN and the two infinities
Number(twice) == [kind |-> "finite", twice |-> twice]
Whole(i) == Number(2 * i)
NaN == [kind |-> "NaN", twice |-> 0]
PosInfinity == [kind |-> "+Infinity", twice |-> 0]
NegInfinity == [kind |-> "-Infinity", twice |-> 0]

\* a < b for two numbers other than NaN
LessThan(a, b) ==
    \/ a.kind = "-Infinity" /\ b.kind # "-Infinity"
    \/ b.kind = "+Infinity" /\ a.kind # "+Infinity"
    \/ a.kind = "finite" /\ b.kind = "finite" /\ a.twice < b.twice

\* Math.floor, Math.max and Math.min: NaN when an argument is NaN
mathFloor(x) == IF x.kind = "finite" THEN Whole(x.twice \div 2) ELSE x
mathMax(a, b) ==
    IF a.kind = "NaN" \/ b.kind = "NaN" THEN NaN ELSE IF LessThan(a, b) THEN b ELSE a
mathMin(a, b) ==
    IF a.kind = "NaN" \/ b.kind = "NaN" THEN NaN ELSE IF LessThan(a, b) THEN a ELSE b

\* Array.from({ length: x }): ToLength(x) elements, 0 for NaN and for a
\* number below 1, the integer part otherwise
ArrayLength(x) ==
    IF x.kind = "finite" /\ x.twice >= 2 THEN x.twice \div 2 ELSE 0

\* line 32 without Math.max
concurrencyUnclamped(maxConcurrency) == mathFloor(maxConcurrency)

\* line 32: const concurrency
concurrencyOf(maxConcurrency) == mathMax(Whole(1), mathFloor(maxConcurrency))

\* line 44: the number of worker() calls
workersStarted(maxConcurrency, length) ==
    ArrayLength(mathMin(concurrencyOf(maxConcurrency), Whole(length)))

\* line 32, ignoring maxConcurrency: one worker per item
WorkerPerItem == N

\* lines 32 and 44 for the concurrency the input schema lets through
WorkerCount == workersStarted(Whole(concurrency), N)

\* line 39 without the increment
AfterClaimStale(index) == index

\* line 39
AfterClaim(index) == index + 1

\* results.push(...) in the order of completion instead of line 40
SlotInCompletionOrder(wr) == Cardinality({i \in DOMAIN results : results[i].filled})

\* line 40: the slot the worker stores into
Slot(wr) == wr.currentIndex

\* lines 36-40: the worker stores the result of its item, then claims the
\* next index or returns.  No await separates the read of nextIndex from its
\* increment.
Complete(w, wr, res) ==
    LET currentIndex == nextIndex
    IN  /\ results' = [results EXCEPT ![Slot(wr)] = WithHistory(res, wr)]
        /\ written' = [written EXCEPT ![wr.currentIndex] = @ + 1]
        /\ IF currentIndex >= N
           THEN /\ worker' = [worker EXCEPT ![w] = DoneWorker]
                /\ UNCHANGED <<nextIndex, claimed>>
           ELSE /\ nextIndex' = AfterClaim(nextIndex)
                /\ claimed' = [claimed EXCEPT ![currentIndex] = @ + 1]
                /\ worker' = [worker EXCEPT ![w] = StartItem(currentIndex)]

-----------------------------------------------------------------------------
(* Outcomes of an attempt, as the log of a request records them.           *)

Answered(status) == [kind |-> "status", status |-> status]
Failed(kind) == [kind |-> kind, status |-> 0]

\* The exception of the first attempt kept for every later one
ExceptionOfFirstAttempt(kind, k) == <<kind, ToString(1)>>

\* The exception of attempt k: what toErrorMessage gives for it
Exception(kind, k) == <<kind, ToString(k)>>

-----------------------------------------------------------------------------
(* transcribeAudioTool: the steps before and after the dispatch.           *)

\* The value of an environment variable that is not set, and a credential
Unset == "undefined"
ApiKey == "gsk"

\* line 424 testing only for an unset variable
ApiKeyIsSet == apiKey # Unset

\* line 424: the variable is set and not the empty string
HasApiKey == apiKey # Unset /\ apiKey # ""

\* lines 423-430
MissingApiKey ==
    /\ mainpc = "start"
    /\ ~HasApiKey
    /\ mainpc' = "returned"
    /\ toolResult' = [isError |-> TRUE, error |-> "missing_api_key",
                      total |-> 0, ok |-> 0, failed |-> 0]
    /\ UNCHANGED <<inputs, nextIndex, results, worker, fs, clock, claimed, written>>

\* line 468 never taken
NeverEmpty == FALSE

\* line 468: effectiveItems.length === 0
IsEmptyList == N = 0

\* lines 468-492
NoItems ==
    /\ mainpc = "start"
    /\ HasApiKey
    /\ IsEmptyList
    /\ mainpc' = "returned"
    /\ toolResult' = [isError |-> TRUE, error |-> "invalid_input",
                      total |-> 0, ok |-> 0, failed |-> 0]
    /\ UNCHANGED <<inputs, nextIndex, results, worker, fs, clock, claimed, written>>

\* line 505 and mapWithConcurrency lines 31-45: the workers are started one
\* after the other, each running to its first await
Dispatch ==
    /\ mainpc = "start"
    /\ HasApiKey
    /\ ~IsEmptyList
    /\ mainpc' = "awaiting"
    /\ results' = [i \in Indices |-> EmptySlot]
    /\ worker' = [w \in 1 .. WorkerCount |-> StartedInTurn(w - 1)]
    /\ nextIndex' = WorkerCount
    /\ claimed' = [i \in Indices |-> IF i < WorkerCount THEN 1 ELSE 0]
    /\ written' = [i \in Indices |-> 0]
    /\ UNCHANGED <<inputs, fs, clock, toolResult>>

\* line 537 counting the saved artifacts instead of the successes
CountSaved == Cardinality({i \in Indices : results[i].saved})

\* line 537 without the filter: every result counts
CountResults == Cardinality({i \in Indices : results[i].filled})

\* line 537
CountOk == Cardinality({i \in Indices : results[i].ok})

\* isError whenever an item failed, whatever the size of the batch
TopLevelIsErrorOnAnyFailure == \E i \in Indices : ~results[i].ok

\* line 565-582 and 599-611: isError only for a single failed item
TopLevelIsError == N = 1 /\ ~results[0].ok

\* line 45 with Promise.race: the call returns when its first worker is
\* done
MapReturnOnFirstWorker ==
    /\ mainpc = "awaiting"
    /\ \E w \in Workers : worker[w].pc = "done"
    /\ mainpc' = "returned"
    /\ toolResult' = [isError |-> TopLevelIsError, error |-> Null,
                      total |-> N, ok |-> CountOk, failed |-> N - CountOk]
    /\ UNCHANGED <<inputs, nextIndex, results, worker, fs, clock, claimed, written>>

\* mapWithConcurrency lines 45-46 and transcribeAudioTool lines 537-611
MapReturn ==
    /\ mainpc = "awaiting"
    /\ \A w \in Workers : worker[w].pc = "done"
    /\ mainpc' = "returned"
    /\ toolResult' = [isError |-> TopLevelIsError, error |-> Null,
                      total |-> N, ok |-> CountOk, failed |-> N - CountOk]
    /\ UNCHANGED <<inputs, nextIndex, results, worker, fs, clock, claimed, written>>

-----------------------------------------------------------------------------
(* transcribeOne: reading the input file (services/files.ts).              *)

\* readAudioFile lines 40-66: the path was refused or fs.stat has completed
StatInput(w) ==
    LET wr == worker[w]
        code == readAudioFileCode(items[wr.currentIndex].file_path)
    IN  /\ mainpc = "awaiting"
        /\ w \in Workers
        /\ wr.pc = "stat"
        /\ IF code # ""
           THEN Complete(w, wr, FileFailure(wr.currentIndex, code))
           ELSE /\ worker' = [worker EXCEPT ![w].pc = "read"]
                /\ UNCHANGED <<nextIndex, results, claimed, written>>
        /\ UNCHANGED <<inputs, mainpc, fs, clock, toolResult>>

\* readAudioFile lines 68-69: fs.readFile has completed; the request starts
ReadInput(w) ==
    /\ mainpc = "awaiting"
    /\ w \in Workers
    /\ worker[w].pc = "read"
    /\ worker' = [worker EXCEPT ![w] = BeginAttempt(@, 1)]
    /\ UNCHANGED <<inputs, mainpc, nextIndex, results, fs, clock, claimed, written,
                   toolResult>>

-----------------------------------------------------------------------------
(* fetchWithRetry and groqCreateTranscription (services/groqAudio.ts).     *)

\* line 140 left out: the timer stays armed
clearTimeoutSkipped(timers, k) == timers

\* line 140: clearTimeout(timeout) in `finally`
clearTimeout(timers, k) == timers \ {k}

\* lines 135-138 with clearTimeout called before the sleep
StartBackoffDisarmed(wr, outcome) ==
    [wr EXCEPT !.pc = "sleep", !.log = Append(@, outcome), !.sleeps = @ + 1,
               !.timers = @ \ {wr.attempt}]

\* lines 135-138: the attempt threw and another one follows; the backoff
\* sleep starts inside the catch block, before `finally` runs
StartBackoff(wr, outcome) ==
    [wr EXCEPT !.pc = "sleep", !.log = Append(@, outcome), !.sleeps = @ + 1]

\* lines 128-130: the status is retryable and another attempt follows; the
\* body of the response is being discarded
StartDiscard(wr, outcome) ==
    [wr EXCEPT !.pc = "discard", !.log = Append(@, outcome)]

\* lines 119 and 139-141, then groqCreateTranscription lines 60-77 and
\* transcribeOne up to the await of ensureDir: a 2xx response is returned
ReturnOk(wr, status) ==
    [wr EXCEPT !.pc = "mkdir", !.log = Append(@, Answered(status)),
               !.timers = clearTimeout(@, wr.attempt),
               !.body = Body(wr.currentIndex, wr.attempt)]

\* the backoff sleep made also after the last attempt, before its response
\* or exception is handed on
LeaveAfterSleep(wr, outcome) ==
    [wr EXCEPT !.log = Append(@, outcome), !.sleeps = @ + 1,
               !.timers = @ \ {wr.attempt}]

\* what fetchWithRetry leaves behind when it returns or throws (line 140)
Leave(wr, outcome) ==
    [wr EXCEPT !.log = Append(@, outcome), !.timers = clearTimeout(@, wr.attempt)]

\* The endpoint of tests/transcribe.test.ts: odd calls are answered 200,
\* even calls 400
StatusByCallOrder(callNumber) == IF callNumber % 2 = 0 THEN 400 ELSE 200

\* The endpoint can answer this call with this status
Answers(status, callNumber) ==
    endpoint.byCallOrder => status = StatusByCallOrder(callNumber)

\* lines 112-133: fetch has resolved with a response of this status
FetchResponse(w) ==
    \E status \in endpoint.statuses :
        LET wr == worker[w] IN
        /\ mainpc = "awaiting"
        /\ w \in Workers
        /\ wr.pc = "fetch"
        /\ Answers(status, wr.callNumber)
        /\ IF ResponseOk(status)
           THEN /\ worker' = [worker EXCEPT ![w] = ReturnOk(wr, status)]
                /\ UNCHANGED <<nextIndex, results, claimed, written>>
           ELSE IF ReturnsResponse(status, wr.attempt)
           THEN Complete(w, Leave(wr, Answered(status)),
                         HttpFailure(wr.currentIndex, status,
                                     Body(wr.currentIndex, wr.attempt)))
           ELSE /\ worker' = [worker EXCEPT ![w] = StartDiscard(wr, Answered(status))]
                /\ UNCHANGED <<nextIndex, results, claimed, written>>
        /\ UNCHANGED <<inputs, mainpc, fs, clock, toolResult>>

\* lines 130-132 and discardResponseBody (lines 89-99): the body has been
\* cancelled, or read to its end, or both failed; the backoff sleep starts,
\* inside the try block, before `finally` runs
DiscardDone(w) ==
    /\ mainpc = "awaiting"
    /\ w \in Workers
    /\ worker[w].pc = "discard"
    /\ worker' = [worker EXCEPT ![w].pc = "sleep", ![w].sleeps = @ + 1,
                                ![w].discards = @ + 1]
    /\ UNCHANGED <<inputs, mainpc, nextIndex, results, fs, clock, claimed, written,
                   toolResult>>

\* lines 134-138: the attempt of the request `wr` of worker w has ended in
\* the exception `kind`
AttemptThrows(w, wr, kind) ==
    IF Rethrows(wr.attempt)
    THEN Complete(w, Leave(wr, Failed(kind)),
                  UnexpectedFailure(wr.currentIndex, Exception(kind, wr.attempt)))
    ELSE /\ worker' = [worker EXCEPT ![w] = StartBackoff(wr, Failed(kind))]
         /\ UNCHANGED <<nextIndex, results, claimed, written>>

\* lines 115 and 134-138: the exception of makeBody() is caught like that
\* of a failed fetch, in the turn that started the attempt
MakeBodyThrows(w) ==
    /\ mainpc = "awaiting"
    /\ w \in Workers
    /\ worker[w].pc = "makeBody"
    /\ AttemptThrows(w, worker[w], "missing file or url")
    /\ UNCHANGED <<inputs, mainpc, fs, clock, toolResult>>

\* fetch has rejected: the connection failed
FetchFails(w) ==
    /\ mainpc = "awaiting"
    /\ w \in Workers
    /\ worker[w].pc = "fetch"
    /\ endpoint.fails
    /\ AttemptThrows(w, worker[w], "network")
    /\ UNCHANGED <<inputs, mainpc, fs, clock, toolResult>>

\* one AbortController for the whole call instead of line 109
signalShared(k) == 0

\* lines 109 and 116: attempt k has a controller of its own, and its fetch
\* listens to the signal of that controller
signalOf(k) == k

\* The timer of attempt k has run controller.abort()
TimerFired(wr, k) == [wr EXCEPT !.timers = @ \ {k}, !.fired = @ \cup {k}]

\* line 110: the fetch of the outstanding attempt rejects because the
\* controller it listens to is aborted by the timer of attempt k, which
\* fires now or has fired before
TimeoutAborts(w) ==
    LET wr == worker[w] IN
    /\ mainpc = "awaiting"
    /\ w \in Workers
    /\ wr.pc = "fetch"
    /\ endpoint.timeouts
    /\ \E k \in wr.timers \cup wr.fired :
          /\ signalOf(k) = signalOf(wr.attempt)
          /\ AttemptThrows(w, [TimerFired(wr, k) EXCEPT
                                  !.abortedBy = @ \cup {<<k, wr.attempt>>}],
                           "abort")
    /\ UNCHANGED <<inputs, mainpc, fs, clock, toolResult>>

\* line 110: a timer runs controller.abort() while the body is discarded or
\* during the backoff sleep; the fetch it belongs to is over, and a failure
\* of the discarding is ignored (lines 92-98)
TimeoutDuringBackoff(w) ==
    /\ mainpc = "awaiting"
    /\ w \in Workers
    /\ worker[w].pc \in {"discard", "sleep"}
    /\ endpoint.timeouts
    /\ \E k \in worker[w].timers :
          worker' = [worker EXCEPT ![w] = TimerFired(@, k)]
    /\ UNCHANGED <<inputs, mainpc, nextIndex, results, fs, clock, claimed,
                   written, toolResult>>

\* lines 132-133 / 137-141: the sleep is over, `finally` clears the timer of
\* the attempt and the loop starts the next attempt
BackoffElapsed(w) ==
    LET wr == worker[w] IN
    /\ mainpc = "awaiting"
    /\ w \in Workers
    /\ wr.pc = "sleep"
    /\ worker' = [worker EXCEPT ![w] =
                    StartAttempt([wr EXCEPT !.timers = clearTimeout(@, wr.attempt)],
                                 wr.attempt + 1)]
    /\ UNCHANGED <<inputs, mainpc, nextIndex, results, fs, clock, claimed, written,
                   toolResult>>

-----------------------------------------------------------------------------
(* saveTranscriptArtifact (tools/transcribe.ts) and reserveTranscriptPath. *)

\* transcribeOne lines 311-318: the message of the caught save error
ExtensionError == "save_as extension does not match"
ExhaustedError == "too many collisions"
ExistsError == "EEXIST: file already exists"

\* reserveTranscriptPath lines 136-156: ensureDir has completed.  With a save
\* name the path is returned unchecked and fs.writeFile is called; without
\* one the clock is read (it shows the millisecond of the previous reading
\* or a later one) and the first candidate is looked up
MkdirDone(w) ==
    LET wr == worker[w]
        item == items[wr.currentIndex]
        ext == ExtensionFor(response_format)
    IN  /\ mainpc = "awaiting"
        /\ w \in Workers
        /\ wr.pc = "mkdir"
        /\ IF item.save_as # << >>
           THEN /\ IF ExtensionMismatch(item.save_as, ext)
                   THEN Complete(w, wr, UnsavedSuccess(wr.currentIndex, wr.body,
                                                       ExtensionError))
                   ELSE /\ worker' = [worker EXCEPT ![w].pc = "write",
                                         ![w].path = ExplicitPath(item.save_as, ext)]
                        /\ UNCHANGED <<nextIndex, results, claimed, written>>
                /\ UNCHANGED clock
           ELSE \E now \in {clock, clock + 1} :
                LET base == sanitizeSegment(deriveTranscriptBaseName(item))
                    ts == timestampSlug(now)
                IN  /\ clock' = now
                    /\ worker' = [worker EXCEPT ![w].pc = "exists", ![w].ts = ts,
                                     ![w].i = 1,
                                     ![w].path = Candidate(base, ts, 1, ext)]
                    /\ UNCHANGED <<nextIndex, results, claimed, written>>
        /\ UNCHANGED <<inputs, mainpc, fs, toolResult>>

\* lines 156-163: the fs.stat of a candidate has completed
ExistsDone(w) ==
    LET wr == worker[w]
        item == items[wr.currentIndex]
        ext == ExtensionFor(response_format)
        base == sanitizeSegment(deriveTranscriptBaseName(item))
    IN  /\ mainpc = "awaiting"
        /\ w \in Workers
        /\ wr.pc = "exists"
        /\ IF ~exists(wr.path)
           THEN /\ worker' = [worker EXCEPT ![w].pc = "write",
                                 ![w].checked = Append(@, Lookup(wr.path))]
                /\ UNCHANGED <<nextIndex, results, claimed, written>>
           ELSE IF wr.i + 1 <= SuffixLimit
           THEN /\ worker' = [worker EXCEPT ![w].i = wr.i + 1,
                                 ![w].checked = Append(@, Lookup(wr.path)),
                                 ![w].path = Candidate(base, wr.ts, wr.i + 1, ext)]
                /\ UNCHANGED <<nextIndex, results, claimed, written>>
           ELSE Complete(w, [wr EXCEPT !.checked = Append(@, Lookup(wr.path))],
                         UnsavedSuccess(wr.currentIndex, wr.body, ExhaustedError))
        /\ UNCHANGED <<inputs, mainpc, fs, clock, toolResult>>

\* saveTranscriptArtifact line 78: fs.writeFile with flag "wx" has completed;
\* the file is created only when nothing is at the path
WriteDone(w) ==
    LET wr == worker[w] IN
    /\ mainpc = "awaiting"
    /\ w \in Workers
    /\ wr.pc = "write"
    /\ IF WriteFails(wr.path)
       THEN /\ Complete(w, wr, UnsavedSuccess(wr.currentIndex, wr.body, ExistsError))
            /\ UNCHANGED fs
       ELSE /\ fs' = [p \in DOMAIN fs \cup {wr.path} |->
                        IF p = wr.path THEN wr.body ELSE fs[p]]
            /\ worker' = [worker EXCEPT ![w].pc = "saved"]
            /\ UNCHANGED <<nextIndex, results, claimed, written>>
    /\ UNCHANGED <<inputs, mainpc, clock, toolResult>>

\* lines 79-80 and transcribeOne lines 310-346: the fs.stat of the written
\* file has completed
SavedStatDone(w) ==
    LET wr == worker[w] IN
    /\ mainpc = "awaiting"
    /\ w \in Workers
    /\ wr.pc = "saved"
    /\ Complete(w, wr, SavedSuccess(wr.currentIndex, wr.body, wr.path))
    /\ UNCHANGED <<inputs, mainpc, fs, clock, toolResult>>

-----------------------------------------------------------------------------
(* Inputs.                                                                 *)

UrlA == <<"example.com", <<"/", "audio", "/", "a", ".", "wav">>>>
FileA == <<"/", "d", "/", "a", ".", "wav">>
FileMissing == <<"/", "d", "/", "gone", ".", "wav">>
FileEmpty == <<"/", "d", "/", "empty", ".", "wav">>
FileBig == <<"/", "d", "/", "big", ".", "wav">>
FileCap == <<"/", "d", "/", "cap", ".", "wav">>
Directory == <<"/", "d">>
FileNul == <<"/", "d", "/", "a", NullByte, ".", "wav">>

IdOf(index) == <<"id", ToString(index)>>

Item(id, file_path, url, save_as) ==
    [id |-> id, file_path |-> file_path, url |-> url, save_as |-> save_as]

UrlItem(id, save_as) == Item(id, << >>, UrlA, save_as)
FileItem(id, file_path, save_as) == Item(id, file_path, << >>, save_as)

\* Files found in the transcripts directory when the call starts
OldFile == Body(-1, 0)
Preexisting(paths) == [p \in paths |-> OldFile]

\* No pure function is under study
NoSample == [stage |-> "none"]

ToolIdle ==
    /\ mainpc = "start"
    /\ nextIndex = 0
    /\ results = << >>
    /\ worker = << >>
    /\ claimed = << >>
    /\ written = << >>
    /\ clock = 0
    /\ toolResult = [isError |-> FALSE, error |-> Null, total |-> 0, ok |-> 0,
                     failed |-> 0]

Idle == ToolIdle /\ sample = NoSample

ToolStep == MissingApiKey \/ NoItems \/ Dispatch \/ MapReturn

InputStep(w) == StatInput(w) \/ ReadInput(w)

TimeoutStep(w) == TimeoutAborts(w) \/ TimeoutDuringBackoff(w)

SaveStep(w) == MkdirDone(w) \/ ExistsDone(w) \/ WriteDone(w) \/ SavedStatDone(w)

-----------------------------------------------------------------------------
(* Spec: a call with at most one item, every kind of source, every answer  *)
(* of the endpoint and every configured number of retries.                 *)

AllStatuses == {200, 204, 400, 404, 429, 500, 502, 503, 504}

SingleItems ==
    {UrlItem(id, name) : id \in {<< >>, IdOf(0)},
                         name \in {<< >>, <<"x">>, <<"x", ".", "json">>}}
    \cup {FileItem(<< >>, f, << >>) :
            f \in {FileA, FileMissing, FileEmpty, FileBig, FileCap, Directory, FileNul}}

Init ==
    /\ apiKey \in {Unset, "", ApiKey}
    /\ items \in {<< >>} \cup {[i \in {0} |-> it] : it \in SingleItems}
    /\ concurrency \in 1 .. 2
    /\ response_format \in {"text", "json"}
    /\ maxRetries \in 0 .. MaxRetries
    /\ endpoint = [statuses |-> AllStatuses, fails |-> TRUE, timeouts |-> TRUE,
                   byCallOrder |-> FALSE]
    /\ fs \in {Preexisting({}), Preexisting({ExplicitPath(<<"x">>, "json")})}
    /\ Idle

Next ==
    \/ ToolStep
    \/ \E w \in WorkerIds :
          \/ InputStep(w)
          \/ FetchResponse(w)
          \/ DiscardDone(w)
          \/ FetchFails(w)
          \/ TimeoutStep(w)
          \/ BackoffElapsed(w)
          \/ SaveStep(w)

Spec == Init /\ [][Next]_vars

-----------------------------------------------------------------------------
(* SpecBatch: batches of up to MaxItems items under every concurrency.     *)
(* An item is a url, with or without id, saved under a name of its own, or *)
(* a file that is missing.  The endpoint answers in time with 200 or 503;  *)
(* one retry is configured.                                                *)

SaveNameOf(index) == <<"x", ToString(index)>>

BatchItemsAt(index) ==
    {UrlItem(IdOf(index), SaveNameOf(index)), UrlItem(<< >>, SaveNameOf(index)),
     FileItem(<< >>, FileMissing, << >>)}

InitBatch ==
    /\ apiKey = ApiKey
    /\ \E n \in 1 .. MaxItems :
          items \in {f \in [0 .. (n - 1) -> UNION {BatchItemsAt(i) : i \in 0 .. (n - 1)}] :
                        \A i \in 0 .. (n - 1) : f[i] \in BatchItemsAt(i)}
    /\ concurrency \in 1 .. MaxItems
    /\ response_format = "text"
    /\ maxRetries = 1
    /\ endpoint = [statuses |-> {200, 503}, fails |-> FALSE, timeouts |-> FALSE,
                   byCallOrder |-> FALSE]
    /\ fs = Preexisting({})
    /\ Idle

\* Without an input file that can be read, a failing connection, an
\* elapsing timeout or a default name, ReadInput, FetchFails, the timeout
\* steps and ExistsDone are never enabled
NextBatch ==
    \/ Dispatch
    \/ MapReturn
    \/ \E w \in WorkerIds :
          \/ StatInput(w)
          \/ FetchResponse(w)
          \/ DiscardDone(w)
          \/ BackoffElapsed(w)
          \/ MkdirDone(w)
          \/ WriteDone(w)
          \/ SavedStatDone(w)

SpecBatch == InitBatch /\ [][NextBatch]_vars

-----------------------------------------------------------------------------
(* SpecSave: batches of up to MaxSavers url items whose requests all       *)
(* succeed, with and without save names, over a transcripts directory that *)
(* may hold files already.                                                 *)

SaveNames == {<< >>, <<"x">>, <<"x", ".", "json">>}

OldPaths ==
    {ExplicitPath(<<"x">>, "txt"),
     Candidate(<<"a">>, timestampSlug(0), 1, "txt"),
     Candidate(<<"a">>, timestampSlug(0), 2, "txt")}

InitSave ==
    /\ apiKey = ApiKey
    /\ \E n \in 1 .. MaxSavers :
          items \in [0 .. (n - 1) -> {UrlItem(<< >>, name) : name \in SaveNames}]
    /\ concurrency \in 1 .. MaxSavers
    /\ response_format \in {"text", "json"}
    /\ maxRetries = 0
    /\ endpoint = [statuses |-> {200}, fails |-> FALSE, timeouts |-> FALSE,
                   byCallOrder |-> FALSE]
    /\ fs \in {Preexisting(P) : P \in SUBSET OldPaths}
    /\ Idle

\* Every request is answered 200 by its first attempt
NextSave ==
    \/ Dispatch
    \/ MapReturn
    \/ \E w \in WorkerIds :
          \/ FetchResponse(w)
          \/ SaveStep(w)

SpecSave == InitSave /\ [][NextSave]_vars

-----------------------------------------------------------------------------
(* A batch whose items fail in every way: a missing file, a connection     *)
(* failure, a 400, and an artifact path that is already taken.             *)

MixedItems ==
    {FileItem(<< >>, FileMissing, << >>), UrlItem(<< >>, <<"x">>), UrlItem(<< >>, << >>)}

InitMixed ==
    /\ apiKey = ApiKey
    /\ \E n \in 1 .. MaxMixed : items \in [0 .. (n - 1) -> MixedItems]
    /\ concurrency \in 1 .. MaxMixed
    /\ response_format = "text"
    /\ maxRetries = 0
    /\ endpoint = [statuses |-> {200, 400}, fails |-> TRUE, timeouts |-> FALSE,
                   byCallOrder |-> FALSE]
    /\ fs = Preexisting({ExplicitPath(<<"x">>, "txt")})
    /\ Idle

NextMixed ==
    \/ Dispatch
    \/ MapReturn
    \/ \E w \in WorkerIds :
          \/ StatInput(w)
          \/ FetchResponse(w)
          \/ FetchFails(w)
          \/ SaveStep(w)

SpecMixed == InitMixed /\ [][NextMixed]_vars

-----------------------------------------------------------------------------
(* The batch of tests/transcribe.test.ts: five URL items with ids a..e,    *)
(* concurrency 2, an endpoint that answers by call order.                  *)

TEST_NAMES == <<"a", "b", "c", "d", "e">>
TEST_CONCURRENCY == 2

TestItem(index) ==
    Item(<<TEST_NAMES[index + 1]>>, << >>,
         <<"example.com", <<"/", TEST_NAMES[index + 1], ".", "wav">>>>, << >>)

InitAlternate ==
    /\ apiKey = ApiKey
    /\ items = [i \in 0 .. (Len(TEST_NAMES) - 1) |-> TestItem(i)]
    /\ concurrency = TEST_CONCURRENCY
    /\ response_format \in {"text", "json"}
    /\ maxRetries \in 0 .. MaxRetries
    /\ endpoint = [statuses |-> {200, 400}, fails |-> FALSE, timeouts |-> FALSE,
                   byCallOrder |-> TRUE]
    /\ fs = Preexisting({})
    /\ Idle

NextAlternate ==
    \/ Dispatch
    \/ MapReturn
    \/ \E w \in WorkerIds :
          \/ FetchResponse(w)
          \/ SaveStep(w)

SpecAlternate == InitAlternate /\ [][NextAlternate]_vars

-----------------------------------------------------------------------------
(* JSON.parse and JSON.stringify on texts that are sequences of tokens: a  *)
(* token is a punctuation mark, a quote, a backslash, a number, null, a    *)
(* line feed or a run of other characters.                                 *)

Quote == "\""
Backslash == "\\"
LineFeed == "\n"

\* JSON values: null, a string, a number, an object (its members in order)
JsonNull == [type |-> "null", str |-> << >>, members |-> << >>]
JsonString(s) == [type |-> "string", str |-> s, members |-> << >>]
JsonNumber(n) == [type |-> "number", str |-> <<n>>, members |-> << >>]
JsonObject(ms) == [type |-> "object", str |-> << >>, members |-> ms]

NumberTokens == {"0", "7", "1e400"}

\* The double a number token denotes: 1e400 is beyond the largest double
NumberOf(t) == IF t = "1e400" THEN "Infinity" ELSE t

SyntaxError == [ok |-> FALSE, value |-> JsonNull, rest |-> << >>]
Parsed(v, rest) == [ok |-> TRUE, value |-> v, rest |-> rest]

\* The member `key` of an object, "undefined" for anything else
HasMember(v, key) ==
    v.type = "object" /\ \E k \in 1 .. Len(v.members) : v.members[k][1] = key
Member(v, key) ==
    v.members[CHOOSE k \in 1 .. Len(v.members) : v.members[k][1] = key][2]

\* An object's members with `key` set to `v`: a repeated key keeps its place
SetMember(ms, key, v) ==
    IF \E k \in 1 .. Len(ms) : ms[k][1] = key
    THEN [k \in 1 .. Len(ms) |-> IF ms[k][1] = key THEN <<key, v>> ELSE ms[k]]
    ELSE Append(ms, <<key, v>>)

\* The characters of a string literal, after its opening quote
RECURSIVE parseString(_, _)
parseString(toks, acc) ==
    IF toks = << >> THEN SyntaxError
    ELSE IF Head(toks) = Quote THEN Parsed(JsonString(acc), Tail(toks))
    ELSE IF Head(toks) = LineFeed THEN SyntaxError
    ELSE IF Head(toks) = Backslash
    THEN IF Len(toks) >= 2 /\ toks[2] \in {Quote, Backslash}
         THEN parseString(Tail(Tail(toks)), Append(acc, toks[2]))
         ELSE IF Len(toks) >= 2 /\ toks[2] = "n"
         THEN parseString(Tail(Tail(toks)), Append(acc, LineFeed))
         ELSE SyntaxError
    ELSE parseString(Tail(toks), Append(acc, Head(toks)))

RECURSIVE parseValue(_)
RECURSIVE parseMembers(_, _)

parseValue(toks) ==
    IF toks = << >> THEN SyntaxError
    ELSE IF Head(toks) = Quote THEN parseString(Tail(toks), << >>)
    ELSE IF Head(toks) = "{"
    THEN IF Len(toks) >= 2 /\ toks[2] = "}"
         THEN Parsed(JsonObject(<< >>), Tail(Tail(toks)))
         ELSE parseMembers(Tail(toks), << >>)
    ELSE IF Head(toks) = "null" THEN Parsed(JsonNull, Tail(toks))
    ELSE IF Head(toks) \in NumberTokens
    THEN Parsed(JsonNumber(NumberOf(Head(toks))), Tail(toks))
    ELSE SyntaxError

\* The members of an object, from a key on
parseMembers(toks, acc) ==
    IF toks = << >> \/ Head(toks) # Quote THEN SyntaxError
    ELSE LET key == parseString(Tail(toks), << >>) IN
         IF ~key.ok \/ key.rest = << >> \/ Head(key.rest) # ":" THEN SyntaxError
         ELSE LET val == parseValue(Tail(key.rest)) IN
              IF ~val.ok \/ val.rest = << >> THEN SyntaxError
              ELSE LET ms == SetMember(acc, key.value.str, val.value) IN
                   IF Head(val.rest) = "}" THEN Parsed(JsonObject(ms), Tail(val.rest))
                   ELSE IF Head(val.rest) = "," THEN parseMembers(Tail(val.rest), ms)
                   ELSE SyntaxError

\* JSON.parse: white space around the value is skipped
RECURSIVE skipLineFeeds(_)
skipLineFeeds(toks) ==
    IF toks # << >> /\ Head(toks) = LineFeed THEN skipLineFeeds(Tail(toks)) ELSE toks

JSONparse(text) ==
    LET r == parseValue(skipLineFeeds(text)) IN
    IF r.ok /\ skipLineFeeds(r.rest) = << >> THEN r ELSE SyntaxError

\* JSON.stringify of the characters of a string
RECURSIVE quoteCharacters(_)
quoteCharacters(s) ==
    IF s = << >> THEN << >>
    ELSE (IF Head(s) \in {Quote, Backslash} THEN <<Backslash, Head(s)>>
          ELSE IF Head(s) = LineFeed THEN <<Backslash, "n">>
          ELSE <<Head(s)>>) \o quoteCharacters(Tail(s))

stringifyString(s) == <<Quote>> \o quoteCharacters(s) \o <<Quote>>

\* JSON.stringify: a number that is not finite is written as null
RECURSIVE JSONstringify(_)
RECURSIVE stringifyMembers(_)

JSONstringify(v) ==
    CASE v.type = "null"   -> <<"null">>
      [] v.type = "string" -> stringifyString(v.str)
      [] v.type = "number" -> IF v.str = <<"Infinity">> THEN <<"null">> ELSE v.str
      [] v.type = "object" -> <<"{">> \o stringifyMembers(v.members) \o <<"}">>

stringifyMembers(ms) ==
    IF ms = << >> THEN << >>
    ELSE stringifyString(ms[1][1]) \o <<":">> \o JSONstringify(ms[1][2])
         \o (IF Len(ms) > 1 THEN <<",">> \o stringifyMembers(Tail(ms)) ELSE << >>)

-----------------------------------------------------------------------------
(* From the response to the artifact: groqCreateTranscription lines 60-77, *)
(* extractTranscript, and the contents saveTranscriptArtifact writes.      *)

\* tools/transcribe.ts lines 15-21
tryParseJson(text) == IF JSONparse(text).ok THEN JSONparse(text).value ELSE JsonNull

\* a ?? b
Coalesce(a, b) == IF a = JsonNull THEN b ELSE a

\* The value counts as true in a condition
Truthy(v) ==
    \/ v.type = "object"
    \/ v.type = "string" /\ v.str # << >>
    \/ v.type = "number" /\ v.str # <<"0">>

\* groqAudio.ts line 69: contentType?.includes("application/json")
IsJsonContentType(contentType) ==
    contentType \in {"application/json", "application/json; charset=utf-8"}

\* groqAudio.ts lines 68-75
rawJsonOf(contentType, bodyText) ==
    IF IsJsonContentType(contentType) THEN tryParseJson(bodyText) ELSE JsonNull

\* line 31 without the fallback to tryParseJson(rawText)
extractTranscriptFromRawJson(responseFormat, rawText, rawJson) ==
    IF responseFormat = "text"
    THEN [found |-> TRUE, transcript |-> rawText, parsedJson |-> JsonNull]
    ELSE IF Truthy(rawJson) /\ HasMember(rawJson, <<"text">>)
                            /\ Member(rawJson, <<"text">>).type = "string"
    THEN [found |-> TRUE, transcript |-> Member(rawJson, <<"text">>).str,
          parsedJson |-> rawJson]
    ELSE [found |-> FALSE, transcript |-> << >>, parsedJson |-> rawJson]

\* lines 23-37; found = FALSE stands for transcript: null
extractTranscript(responseFormat, rawText, rawJson) ==
    IF responseFormat = "text"
    THEN [found |-> TRUE, transcript |-> rawText, parsedJson |-> JsonNull]
    ELSE LET parsedJson == Coalesce(rawJson, tryParseJson(rawText)) IN
         IF Truthy(parsedJson) /\ HasMember(parsedJson, <<"text">>)
                               /\ Member(parsedJson, <<"text">>).type = "string"
         THEN [found |-> TRUE, transcript |-> Member(parsedJson, <<"text">>).str,
               parsedJson |-> parsedJson]
         ELSE [found |-> FALSE, transcript |-> << >>, parsedJson |-> parsedJson]

\* transcribeOne line 232: transcript ?? rawText
transcriptTextOf(extracted, rawText) ==
    IF extracted.found THEN extracted.transcript ELSE rawText

\* line 65 writing the raw body instead
ArtifactTranscriptRaw(transcriptText, rawText) == rawText

\* saveTranscriptArtifact line 65: transcript: options.transcriptText
ArtifactTranscript(transcriptText, rawText) == transcriptText

\* lines 62-73: the document of a JSON artifact
payload(s) ==
    JsonObject(<<
        <<<<"saved_at">>, JsonString(<<"T">>)>>,
        <<<<"model">>, JsonString(<<"whisper-large-v3-turbo">>)>>,
        <<<<"transcript">>, JsonString(ArtifactTranscript(s.transcript, s.rawText))>>,
        <<<<"request">>,
          JsonObject(<< <<<<"response_format">>, JsonString(<<s.response_format>>)>> >>)>>,
        <<<<"response">>,
          JsonObject(IF s.contentType = Unset THEN << >>
                     ELSE << <<<<"content_type">>, JsonString(<<s.contentType>>)>> >>)>>,
        <<<<"groq_response">>, Coalesce(s.rawJson, tryParseJson(s.rawText))>>,
        <<<<"groq_raw_text">>, JsonString(s.rawText)>>
    >>)

\* text.endsWith("\n")
endsWithLineFeed(text) == text # << >> /\ Last(text) = LineFeed

\* line 60 appending the newline without looking at the end of the text
withLineFeedAppended(text) == text \o <<LineFeed>>

\* line 60: the transcript with a newline at its end
withTrailingLineFeed(text) ==
    text \o (IF endsWithLineFeed(text) THEN << >> ELSE <<LineFeed>>)

\* lines 57-76: the contents of the artifact
contentsOf(s) ==
    IF ExtensionFor(s.response_format) = "txt"
    THEN withTrailingLineFeed(s.transcript)
    ELSE JSONstringify(payload(s)) \o <<LineFeed>>

\* Response bodies
TextOk == <<"{", Quote, "text", Quote, ":", Quote, "ok", Quote, "}">>
Bodies ==
    {<<"hello">>,
     <<"hello", LineFeed>>,
     << >>,
     TextOk,
     <<"{", Quote, "text", Quote, ":", "7", "}">>,
     <<"{", Quote, "text", Quote, ":", Quote, Quote, "}">>,
     <<"{", Quote, "words", Quote, ":", Quote, "ok", Quote, "}">>,
     <<"{", Quote, "text", Quote, ":", Quote, "ok", Quote>>,
     <<"{", Quote, "text", Quote, ":", Quote, "say", Backslash, Quote, "hi",
       Backslash, Quote, Quote, "}">>,
     <<"{", Quote, "text", Quote, ":", Quote, "ok", Quote, ",",
       Quote, "duration", Quote, ":", "7", "}">>,
     <<"{", Quote, "text", Quote, ":", Quote, "ok", Quote, ",",
       Quote, "duration", Quote, ":", "1e400", "}">>,
     <<"{", Quote, "text", Quote, ":", Quote, "a", Quote, ",",
       Quote, "text", Quote, ":", Quote, "b", Quote, "}">>,
     <<"{", Quote, "segments", Quote, ":", "{", Quote, "text", Quote, ":",
       Quote, "s", Quote, "}", ",", Quote, "text", Quote, ":", Quote, "ok", Quote, "}">>,
     <<"null">>,
     <<"0">>,
     <<Quote, "ok", Quote>>}

\* The tool is not running
ToolUnused ==
    /\ apiKey = Unset
    /\ items = << >>
    /\ concurrency = 1
    /\ response_format = "text"
    /\ maxRetries = 0
    /\ endpoint = [statuses |-> {}, fails |-> FALSE, timeouts |-> FALSE,
                   byCallOrder |-> FALSE]
    /\ fs = Preexisting({})
    /\ ToolIdle

InitArtifact ==
    /\ ToolUnused
    /\ \E fmt \in {"text", "json", "verbose_json"},
          ct \in {"application/json", "application/json; charset=utf-8", "text/plain", Unset},
          body \in Bodies :
          sample = [stage |-> "response", response_format |-> fmt, contentType |-> ct,
                    rawText |-> body, rawJson |-> JsonNull, transcript |-> << >>,
                    contents |-> << >>, readBack |-> SyntaxError]

\* A pure function leaves the state of the tool alone
ToolUntouched ==
    UNCHANGED <<apiKey, items, concurrency, response_format, maxRetries, endpoint,
                mainpc, nextIndex, results, worker, fs, clock, claimed, written,
                toolResult>>

\* groqCreateTranscription lines 60-77: the body of the 2xx response is read
ReadBody ==
    /\ ToolUntouched
    /\ sample.stage = "response"
    /\ sample' = [sample EXCEPT !.stage = "read",
                                !.rawJson = rawJsonOf(sample.contentType, sample.rawText)]

\* transcribeOne lines 231-232
Extract ==
    /\ ToolUntouched
    /\ sample.stage = "read"
    /\ sample' = [sample EXCEPT
                    !.stage = "extracted",
                    !.transcript =
                        transcriptTextOf(extractTranscript(sample.response_format,
                                                           sample.rawText, sample.rawJson),
                                         sample.rawText)]

\* saveTranscriptArtifact lines 57-78
WriteArtifact ==
    /\ ToolUntouched
    /\ sample.stage = "extracted"
    /\ sample' = [sample EXCEPT !.stage = "saved", !.contents = contentsOf(sample)]

\* tests/autoSave.test.ts lines 107-108: the JSON artifact is read and parsed
ParseArtifact ==
    /\ ToolUntouched
    /\ sample.stage = "saved"
    /\ ExtensionFor(sample.response_format) = "json"
    /\ sample' = [sample EXCEPT !.stage = "parsed", !.readBack = JSONparse(sample.contents)]

NextArtifact ==
    \/ ReadBody
    \/ Extract
    \/ WriteArtifact
    \/ ParseArtifact

SpecArtifact == InitArtifact /\ [][NextArtifact]_vars

-----------------------------------------------------------------------------
(* schemas/transcribe.ts: TranscribeAudioItemSchema applied to one item.   *)
(* A field is a text (a sequence of tokens) or is absent.                  *)

Absent == <<Unset>>
IsStringValue(v) == v # Absent

includes(s, t) == \E k \in 1 .. Len(s) : s[k] = t

\* z.string().url(): the text is an absolute URL
IsUrl(v) == Len(v) >= 5 /\ SubSeq(v, 1, 4) = <<"https", ":", "/", "/">>

ChooseOneLocal == "Choose one local path field: file_path, path, or audio_path."
ChooseOneSource ==
    "Choose one source type for each item: a local file path or a public url."
SaveAsFilename == "save_as should be a filename like \"intro.txt\"."
TooSmall == "String must contain at least 1 character(s)"
InvalidUrl == "Invalid url"

\* lines 78-110: the issues of the fields
FieldIssues(value) ==
    (IF \E f \in {"save_as", "file_path", "path", "audio_path"} : value[f] = << >>
     THEN {TooSmall} ELSE {})
    \cup (IF IsStringValue(value.url) /\ ~IsUrl(value.url) THEN {InvalidUrl} ELSE {})

\* line 128 rejecting only an item with both kinds of source
SourceTypeBothOnly(hasLocal, hasUrl) == hasLocal /\ hasUrl

\* line 128: hasLocal === hasUrl
SourceTypeIssue(hasLocal, hasUrl) == hasLocal = hasUrl

\* lines 113-143: superRefine
RefinementIssues(value) ==
    LET hasFile == IsStringValue(value.file_path) /\ Len(value.file_path) > 0
        hasPath == IsStringValue(value.path) /\ Len(value.path) > 0
        hasAudioPath == IsStringValue(value.audio_path) /\ Len(value.audio_path) > 0
        hasUrl == IsStringValue(value.url) /\ Len(value.url) > 0
        localCount == (IF hasFile THEN 1 ELSE 0) + (IF hasPath THEN 1 ELSE 0)
                      + (IF hasAudioPath THEN 1 ELSE 0)
        hasLocal == localCount > 0
    IN  (IF localCount > 1 THEN {ChooseOneLocal} ELSE {})
        \cup (IF SourceTypeIssue(hasLocal, hasUrl) THEN {ChooseOneSource} ELSE {})
        \cup (IF /\ IsStringValue(value.save_as)
                 /\ \/ includes(value.save_as, "/")
                    \/ includes(value.save_as, Backslash)
                    \/ includes(value.save_as, "NUL")
              THEN {SaveAsFilename} ELSE {})

LocalPaths == {Absent, << >>, <<"a", ".", "wav">>}
Urls == {Absent, << >>, <<"https", ":", "/", "/", "example.com", "/", "a", ".", "wav">>,
         <<"a", ".", "wav">>}
SaveAsValues == {Absent, <<"intro", ".", "txt">>, <<"a", "/", "b">>, <<"a", Backslash, "b">>}

RawItems ==
    [file_path : LocalPaths, path : LocalPaths, audio_path : LocalPaths, url : Urls,
     save_as : SaveAsValues]

InitSchema ==
    /\ ToolUnused
    /\ \E value \in RawItems :
          sample = [stage |-> "raw", value |-> value, issues |-> {}]

\* TranscribeAudioItemSchema.parse: the field checks, then superRefine
ParseItem ==
    /\ ToolUntouched
    /\ sample.stage = "raw"
    /\ sample' = [sample EXCEPT !.stage = "validated",
                                !.issues = FieldIssues(sample.value)
                                           \cup RefinementIssues(sample.value)]

NextSchema == ParseItem

SpecSchema == InitSchema /\ [][NextSchema]_vars

-----------------------------------------------------------------------------
(* SpecNames: one item whose request succeeds, saved under every save name *)
(* of up to MaxNameLen tokens or under the default name of its source.     *)

MaxNameLen == 3

NameTokens == {" ", "/", "\\", ".", "_", "x", "txt", "TXT"}

NamesUpTo(n) == UNION {[1 .. k -> NameTokens] : k \in 0 .. n}

NamedItems ==
    {UrlItem(<< >>, name) : name \in NamesUpTo(MaxNameLen)}
    \cup {FileItem(<< >>, FileA, << >>)}

InitNames ==
    /\ apiKey = ApiKey
    /\ items \in {[i \in {0} |-> it] : it \in NamedItems}
    /\ concurrency = 1
    /\ response_format \in {"text", "json", "verbose_json"}
    /\ maxRetries = 0
    /\ endpoint = [statuses |-> {200}, fails |-> FALSE, timeouts |-> FALSE,
                   byCallOrder |-> FALSE]
    /\ fs \in {Preexisting({}),
               Preexisting({Candidate(<<"a">>, timestampSlug(0), 1, "txt")})}
    /\ Idle

NextNames ==
    \/ Dispatch
    \/ MapReturn
    \/ \E w \in WorkerIds :
          \/ InputStep(w)
          \/ FetchResponse(w)
          \/ SaveStep(w)

SpecNames == InitNames /\ [][NextNames]_vars

-----------------------------------------------------------------------------
(* SpecWorkers: mapWithConcurrency up to the start of its workers, for     *)
(* every requested concurrency, whole or not, and 0 .. MaxItems items.     *)

RequestedConcurrencies ==
    {Number(t) : t \in -3 .. (2 * MaxItems + 3)} \cup {NaN, PosInfinity, NegInfinity}

InitWorkers ==
    /\ ToolUnused
    /\ \E c \in RequestedConcurrencies, n \in 0 .. MaxItems :
          sample = [stage |-> "called", maxConcurrency |-> c, length |-> n,
                    workers |-> 0, slots |-> 0]

\* lines 31-44: the result array is sized and the workers are started
StartWorkers ==
    /\ sample.stage = "called"
    /\ sample' = [sample EXCEPT !.stage = "started",
                                !.slots = sample.length,
                                !.workers = workersStarted(sample.maxConcurrency,
                                                           sample.length)]
    /\ ToolUntouched

\* lines 45-46 when no worker was started: Promise.all of no promise
\* resolves and the array is returned as it was sized
ReturnUnworked ==
    /\ sample.stage = "started"
    /\ sample.workers = 0
    /\ sample' = [sample EXCEPT !.stage = "returned"]
    /\ ToolUntouched

NextWorkers == StartWorkers \/ ReturnUnworked

SpecWorkers == InitWorkers /\ [][NextWorkers]_vars

-----------------------------------------------------------------------------
(* SpecBackoff: the backoff delays of one fetchWithRetry call whose        *)
(* attempts all fail, for every configured base and every draw of          *)
(* Math.random, which is k / RandomSteps for k in 0 .. RandomSteps - 1.    *)

RandomSteps == 8

\* Math.round of num / den for den > 0: halves are rounded up
mathRound(num, den) == (2 * num + den) \div (2 * den)

\* lines 85-86 without Math.max
jitterMsUnclamped(baseMs, k) ==
    mathRound(baseMs * (7 * RandomSteps + 2 * k), 8 * RandomSteps)

\* lines 85-86: jitter = random * 0.25 + 0.875 = (7 * RandomSteps + 2 * k) /
\* (8 * RandomSteps) for random = k / RandomSteps
jitterMs(baseMs, k) ==
    Max(0, mathRound(baseMs * (7 * RandomSteps + 2 * k), 8 * RandomSteps))

\* lines 131 and 136: config.retryBaseMs * Math.pow(2, attempt - 1)
backoffOf(retryBaseMs, attempt) == retryBaseMs * 2 ^ (attempt - 1)

\* config.retryBaseMs: any integer the environment variable holds
RetryBases == {-250, -1, 0, 1, 3, 4, 250}

InitBackoff ==
    /\ apiKey = Unset
    /\ items = << >>
    /\ concurrency = 1
    /\ response_format = "text"
    /\ maxRetries \in 0 .. MaxRetries
    /\ endpoint = [statuses |-> {}, fails |-> FALSE, timeouts |-> FALSE,
                   byCallOrder |-> FALSE]
    /\ fs = Preexisting({})
    /\ ToolIdle
    /\ \E base \in RetryBases :
          sample = [stage |-> "retrying", retryBaseMs |-> base, attempt |-> 1,
                    backoffs |-> << >>, randoms |-> << >>, delays |-> << >>]

\* lines 128-133 and 135-138: the attempt failed and is not the last one;
\* the delay is computed and slept, and the next attempt begins
SleepBeforeRetry ==
    /\ sample.stage = "retrying"
    /\ ~Rethrows(sample.attempt)
    /\ \E k \in 0 .. (RandomSteps - 1) :
          LET backoff == backoffOf(sample.retryBaseMs, sample.attempt) IN
          sample' = [sample EXCEPT !.attempt = @ + 1,
                                   !.backoffs = Append(@, backoff),
                                   !.randoms = Append(@, k),
                                   !.delays = Append(@, jitterMs(backoff, k))]
    /\ ToolUntouched

\* line 135: the last attempt failed, its exception is thrown
ThrowLast ==
    /\ sample.stage = "retrying"
    /\ Rethrows(sample.attempt)
    /\ sample' = [sample EXCEPT !.stage = "thrown"]
    /\ ToolUntouched

NextBackoff == SleepBeforeRetry \/ ThrowLast

SpecBackoff == InitBackoff /\ [][NextBackoff]_vars

-----------------------------------------------------------------------------
(* SpecFaults: batches of one or two items that are a url, saved under a   *)
(* name of its own, or an item with neither file nor url, as               *)
(* transcribeAudioTool receives them when it is called without the schema. *)
(* An attempt is answered 200, or its connection fails, or it times out;   *)
(* every configured number of retries.                                     *)

UnsourcedItem == Item(<< >>, << >>, << >>, << >>)

InitFaults ==
    /\ apiKey = ApiKey
    /\ \E first \in {UnsourcedItem, UrlItem(<< >>, SaveNameOf(0))},
          second \in {UnsourcedItem, UrlItem(<< >>, SaveNameOf(1))} :
          items \in {[i \in {0} |-> first],
                     [i \in {0, 1} |-> IF i = 0 THEN first ELSE second]}
    /\ concurrency \in 1 .. 2
    /\ response_format = "text"
    /\ maxRetries \in 0 .. MaxRetries
    /\ endpoint = [statuses |-> {200}, fails |-> TRUE, timeouts |-> TRUE,
                   byCallOrder |-> FALSE]
    /\ fs = Preexisting({})
    /\ Idle

NextFaults ==
    \/ Dispatch
    \/ MapReturn
    \/ \E w \in WorkerIds :
          \/ MakeBodyThrows(w)
          \/ FetchResponse(w)
          \/ FetchFails(w)
          \/ TimeoutStep(w)
          \/ BackoffElapsed(w)
          \/ MkdirDone(w)
          \/ WriteDone(w)
          \/ SavedStatDone(w)

SpecFaults == InitFaults /\ [][NextFaults]_vars

\* Worker w awaits ensureDir (reserveTranscriptPath line 136)
AwaitsMkdir(w) == w \in Workers /\ worker[w].pc = "mkdir"

\* The same calls when every operation that is awaited completes: the
\* attempt at the endpoint responds, fails or is aborted by its timer
\* (requestTimeoutMs is finite), the backoff timer runs out, each file
\* operation completes (for ensureDir: no worker awaits it for ever), and a
\* continuation that is ready is run
FaultsCompleted ==
    /\ WF_vars(Dispatch)
    /\ WF_vars(MapReturn)
    /\ \A w \in WorkerIds :
          /\ WF_vars(MakeBodyThrows(w))
          /\ WF_vars(FetchResponse(w) \/ FetchFails(w) \/ TimeoutAborts(w))
          /\ WF_vars(BackoffElapsed(w))
          /\ []<>(~AwaitsMkdir(w))
          /\ WF_vars(WriteDone(w))
          /\ WF_vars(SavedStatDone(w))

SpecFaultsCompleted == InitFaults /\ [][NextFaults]_vars /\ FaultsCompleted

-----------------------------------------------------------------------------
(* Properties of the dispatch (SpecBatch).                                 *)

Dispatched == mainpc \in {"awaiting", "returned"} /\ toolResult.error = Null

\* Items whose operation has started and has not finished
InFlight == {i \in DOMAIN claimed : claimed[i] > written[i]}

\* Workers with an attempt at the endpoint outstanding
Requesting == {w \in Workers : worker[w].pc = "fetch"}

\* C1: whatever the order in which the items complete, a filled result slot i
\* holds the outcome of input item i (its index is i, its id the id of item
\* i), and the array mapWithConcurrency returns has one filled slot per item.
C1_ResultsFollowInput ==
    Dispatched =>
        /\ DOMAIN results = Indices
        /\ \A i \in Indices :
              results[i].filled =>
                  results[i].index = i /\ results[i].id = items[i].id
        /\ mainpc = "returned" => \A i \in Indices : results[i].filled

\* C1 witness: three items on two workers, the last item is stored in its
\* slot while the first one is still being processed, and the array is
\* returned complete later on
C1_Witness ==
    /\ N = 3
    /\ WorkerCount = 2
    /\ mainpc = "awaiting"
    /\ results[2].filled
    /\ results[2].index = 2
    /\ ~results[0].filled

\* C2: at every moment of a dispatch at most `concurrency` item operations
\* have started and not finished, hence at most `concurrency` requests are
\* outstanding at the endpoint, first attempts and retries alike.
C2_InFlightAtMostConcurrency ==
    Dispatched =>
        /\ Cardinality(InFlight) <= concurrency
        /\ Cardinality(Requesting) <= concurrency

\* C2 witness: more items than workers, the pool is full, one of the
\* outstanding requests is a retry and an item has already been finished
C2_Witness ==
    /\ mainpc = "awaiting"
    /\ concurrency = 2
    /\ N = 3
    /\ Cardinality(InFlight) = 2
    /\ Cardinality(Requesting) = 2
    /\ \E w \in Workers : worker[w].attempt = 2
    /\ \E i \in Indices : results[i].filled

\* C3: every index is claimed by one worker, once; every result slot is
\* written once; when the dispatch returns no index was skipped.
C3_EachIndexOnce ==
    Dispatched =>
        /\ \A i \in Indices :
              /\ claimed[i] <= 1
              /\ written[i] <= claimed[i]
              /\ results[i].filled <=> written[i] = 1
        /\ \A v, w \in Workers :
              (v # w /\ worker[v].pc # "done" /\ worker[w].pc # "done")
                  => worker[v].currentIndex # worker[w].currentIndex
        /\ mainpc = "returned" =>
              \A i \in Indices : claimed[i] = 1 /\ written[i] = 1

\* C3 witness: a dispatch of three items on two workers has returned, so one
\* worker claimed two indices
C3_Witness ==
    /\ mainpc = "returned"
    /\ N = 3
    /\ concurrency = 2
    /\ \A i \in Indices : claimed[i] = 1 /\ written[i] = 1 /\ results[i].filled

-----------------------------------------------------------------------------
(* Properties of the retrying transport and of one item (Spec).            *)

\* The statuses the specification names as retryable
RetryableStatuses == {429, 500, 502, 503, 504}

IsStatus(entry) == entry.kind = "status"
IsException(entry) == entry.kind \in {"network", "abort"}
IsRetryableStatus(entry) == IsStatus(entry) /\ entry.status \in RetryableStatuses
IsSuccessStatus(entry) ==
    IsStatus(entry) /\ entry.status >= 200 /\ entry.status <= 299
IsFinalStatus(entry) ==
    IsStatus(entry) /\ ~IsSuccessStatus(entry) /\ ~IsRetryableStatus(entry)

\* The requests under way, and the finished ones
Calling == {w \in Workers : worker[w].pc \in {"fetch", "discard", "sleep"}}
Finished == {i \in DOMAIN results : results[i].filled}
Requested == {i \in Finished : results[i].log # << >>}

\* C4: a request answered by k retryable statuses, 1 <= k <= maxRetries, is
\* still under way (no result is produced from them), and when a 2xx status
\* follows the request has made exactly k + 1 attempts and its value is the
\* body of attempt k + 1.
C4_RetryThenSuccess ==
    Dispatched =>
        \A i \in Requested :
            LET r == results[i]
                k == Len(r.log) - 1
            IN  /\ ((\A p \in 1 .. Len(r.log) : IsRetryableStatus(r.log[p]))
                       => Len(r.log) > maxRetries)
                /\ (/\ k >= 1
                    /\ k <= maxRetries
                    /\ \A p \in 1 .. k : IsRetryableStatus(r.log[p])
                    /\ IsSuccessStatus(r.log[k + 1]))
                       => /\ r.attempts = k + 1
                          /\ r.bodiesBuilt = k + 1
                          /\ r.ok
                          /\ r.transcript = Body(i, k + 1)

\* C4 witness: 429 then 200 gives two attempts and the second body
C4_Witness ==
    /\ Dispatched
    /\ 0 \in Finished
    /\ results[0].log = <<Answered(429), Answered(200)>>
    /\ results[0].attempts = 2
    /\ results[0].transcript = Body(0, 2)

\* C5: a non-2xx status outside the retryable ones ends the request: it is
\* the last outcome of the request, no backoff sleep follows it, and the item
\* fails with an HTTP error that carries the status.
C5_NonRetryableStatusEndsRequest ==
    Dispatched =>
        /\ \A w \in Workers :
              \A p \in 1 .. Len(worker[w].log) : ~IsFinalStatus(worker[w].log[p])
        /\ \A i \in Requested :
              LET r == results[i] IN
              \A p \in 1 .. Len(r.log) :
                  IsFinalStatus(r.log[p]) =>
                      /\ p = Len(r.log)
                      /\ r.attempts = p
                      /\ r.sleeps = p - 1
                      /\ ~r.ok
                      /\ r.code = "groq_api_error"
                      /\ r.status = r.log[p].status

\* C5 witness: a 400 on the first attempt, with retries configured
C5_Witness ==
    /\ Dispatched
    /\ maxRetries = 2
    /\ 0 \in Finished
    /\ results[0].log = <<Answered(400)>>
    /\ results[0].attempts = 1
    /\ results[0].sleeps = 0
    /\ results[0].status = 400

\* C6: one request makes at least one and at most maxRetries + 1 attempts,
\* and exactly maxRetries + 1 when every attempt ended in a retryable status
\* or in an exception.
C6_AttemptsBounded ==
    Dispatched =>
        /\ \A w \in Calling :
              worker[w].calls >= 1 /\ worker[w].calls <= maxRetries + 1
        /\ \A i \in Requested :
              LET r == results[i] IN
              /\ r.attempts = Len(r.log)
              /\ r.attempts >= 1
              /\ r.attempts <= maxRetries + 1
              /\ (\A p \in 1 .. Len(r.log) :
                     IsRetryableStatus(r.log[p]) \/ IsException(r.log[p]))
                    => r.attempts = maxRetries + 1

\* C6 witness: two retries configured, a retryable status, an exception and
\* a retryable status again: three attempts
C6_Witness ==
    /\ Dispatched
    /\ maxRetries = 2
    /\ 0 \in Finished
    /\ results[0].log = <<Answered(503), Failed("network"), Answered(429)>>
    /\ results[0].attempts = 3

\* C7: after an exception with attempts remaining the request sleeps and
\* then makes the next attempt; an exception on the last attempt is the one
\* the caller receives.
C7_ExceptionRetriedOrPropagated ==
    Dispatched =>
        /\ \A w \in Workers :
              LET wr == worker[w] IN
              (wr.log # << >> /\ IsException(Last(wr.log))) =>
                  /\ Len(wr.log) <= maxRetries
                  /\ wr.sleeps = Len(wr.log)
                  /\ \/ wr.pc = "sleep" /\ wr.attempt = Len(wr.log)
                     \/ wr.pc = "fetch" /\ wr.attempt = Len(wr.log) + 1
        /\ \A i \in Requested :
              LET r == results[i] IN
              IsException(Last(r.log)) =>
                  /\ Len(r.log) = maxRetries + 1
                  /\ ~r.ok
                  /\ r.code = "unexpected_error"
                  /\ r.message = Exception(Last(r.log).kind, Len(r.log))

\* C7 witness: a connection failure is retried, the timeout abort of the
\* last attempt reaches the caller
C7_Witness ==
    /\ Dispatched
    /\ maxRetries = 1
    /\ 0 \in Finished
    /\ results[0].log = <<Failed("network"), Failed("abort")>>
    /\ results[0].sleeps = 1
    /\ results[0].message = Exception("abort", 2)

\* C10: an item whose request ended with a 2xx response is a success and is
\* counted in summary.ok, whether or not its artifact was saved; a failed
\* save leaves saved = false and a save_error, never a failure result.
C10_SaveFailureKeepsSuccess ==
    Dispatched =>
        /\ \A i \in Requested :
              LET r == results[i] IN
              IsSuccessStatus(Last(r.log)) =>
                  /\ r.ok
                  /\ r.code = Null
                  /\ r.transcript = Body(i, Len(r.log))
                  /\ r.saved => r.save_error = Null /\ r.saved_path # << >>
                  /\ ~r.saved => r.save_error # Null /\ r.saved_path = << >>
        /\ mainpc = "returned" =>
              /\ toolResult.ok =
                    Cardinality({i \in Requested : IsSuccessStatus(Last(results[i].log))})
              /\ toolResult.ok + toolResult.failed = toolResult.total

\* C10 witness: the call has returned one success whose write found the path
\* taken
C10_Witness ==
    /\ mainpc = "returned"
    /\ toolResult.error = Null
    /\ toolResult.ok = 1
    /\ ~toolResult.isError
    /\ results[0].ok
    /\ ~results[0].saved
    /\ results[0].save_error = ExistsError

-----------------------------------------------------------------------------
(* Properties of the artifact paths (SpecSave).                            *)

Named(i) == items[i].save_as # << >>

\* The path an explicit save name resolves to
NamedPath(i) == ExplicitPath(items[i].save_as, ExtensionFor(response_format))

NameAccepted(i) ==
    Named(i) /\ ~ExtensionMismatch(items[i].save_as, ExtensionFor(response_format))

\* The items whose explicit name resolves to the path of item i
SharingPath(i) == {k \in Indices : NameAccepted(k) /\ NamedPath(k) = NamedPath(i)}

\* A file that was on disk before the call is still there: "wx" never
\* replaces one
OnDiskBefore(filePath) == filePath \in DOMAIN fs /\ fs[filePath] = OldFile

\* One of the two saved at the path, the other found the file
OneSavedOtherExists(i, j) ==
    /\ results[i].saved
    /\ results[i].saved_path = NamedPath(i)
    /\ ~results[j].saved
    /\ results[j].save_error = ExistsError
    /\ NamedPath(i) \in DOMAIN fs
    /\ fs[NamedPath(i)] = results[i].transcript

\* C8 as stated: of two succeeding items with the same explicit save name,
\* one saves its artifact, the other records the already-exists error, and
\* the file holds the content of the one that saved.
C8_AsStated ==
    (Dispatched /\ mainpc = "returned") =>
        \A i, j \in Indices :
            (i # j /\ Named(i) /\ items[i].save_as = items[j].save_as)
                => OneSavedOtherExists(i, j) \/ OneSavedOtherExists(j, i)

\* C8: when the explicit save name of two succeeding items is accepted for
\* the encoding, no third item resolves to the same path and no file was at
\* that path before the call, one of the two saves its artifact, the other
\* records the already-exists error, and the file holds the content of the
\* one that saved.
C8_SameNameOneWinner ==
    (Dispatched /\ mainpc = "returned") =>
        \A i, j \in Indices :
            (/\ i # j
             /\ NameAccepted(i)
             /\ items[i].save_as = items[j].save_as
             /\ SharingPath(i) = {i, j}
             /\ ~OnDiskBefore(NamedPath(i)))
                => OneSavedOtherExists(i, j) \/ OneSavedOtherExists(j, i)

\* C8 witness: two items named "x", the second one wins the path
C8_Witness ==
    /\ mainpc = "returned"
    /\ N = 2
    /\ items[0].save_as = <<"x">>
    /\ items[1].save_as = <<"x">>
    /\ OneSavedOtherExists(1, 0)
    /\ fs[NamedPath(0)] = Body(1, 1)

\* C9 as stated: two items saved with default naming both save, at distinct
\* paths, when no file was in the directory before the call.
C9_DefaultNamesNeverCollide ==
    (Dispatched /\ mainpc = "returned" /\ \A p \in DOMAIN fs : ~OnDiskBefore(p)) =>
        \A i, j \in Indices :
            (i # j /\ ~Named(i) /\ ~Named(j))
                => /\ results[i].saved
                   /\ results[j].saved
                   /\ results[i].saved_path # results[j].saved_path

\* Two default-named items with the same base name and timestamp: both saw
\* the unsuffixed candidate free, the later write found it taken
C9_Collision ==
    /\ mainpc = "returned"
    /\ N = 2
    /\ ~Named(0) /\ ~Named(1)
    /\ \A p \in DOMAIN fs : ~OnDiskBefore(p)
    /\ results[0].saved
    /\ ~results[1].saved
    /\ results[1].save_error = ExistsError

-----------------------------------------------------------------------------
(* Properties of the tool call as a whole (Spec).                          *)

\* Nothing was done for any item: no worker was started (so no file was
\* read and no request sent), no result slot exists, no artifact was written
NothingProcessed ==
    /\ Workers = {}
    /\ results = << >>
    /\ nextIndex = 0
    /\ claimed = << >>
    /\ \A p \in DOMAIN fs : OnDiskBefore(p)

\* C11: without a credential (the variable unset or empty) the call returns
\* the single error missing_api_key and nothing is done for any item: no
\* dispatch, no file read, no request, no artifact.
C11_MissingKeyDoesNothing ==
    apiKey \in {Unset, ""} =>
        /\ mainpc \in {"start", "returned"}
        /\ NothingProcessed
        /\ mainpc = "returned" =>
              /\ toolResult.isError
              /\ toolResult.error = "missing_api_key"
              /\ toolResult.total = 0

\* C11 witness: the call has returned for an empty credential and one item
C11_Witness ==
    /\ apiKey = ""
    /\ N = 1
    /\ mainpc = "returned"
    /\ toolResult.error = "missing_api_key"
    /\ NothingProcessed

\* The code the specification gives for an unusable local file, "" for a
\* usable one
ExpectedFileCode(file_path) ==
    CASE file_path = FileBig     -> "file_too_large"
      [] file_path = FileMissing -> "file_not_found"
      [] file_path = Directory   -> "file_path_not_a_file"
      [] file_path = FileEmpty   -> "file_empty"
      [] file_path = FileNul     -> "invalid_file_path"
      [] OTHER                   -> ""

\* The items that name a local file
LocalItems == {i \in Indices : items[i].file_path # << >>}

\* C12: a local-file item whose file is over the cap, missing, not a regular
\* file or empty fails with the matching code and no request is attempted
\* for it; a file of exactly the cap is not too large.
C12_UnusableFileFailsWithoutRequest ==
    Dispatched =>
        /\ \A w \in Workers :
              LET wr == worker[w] IN
              (/\ wr.pc # "done"
               /\ wr.currentIndex \in LocalItems
               /\ ExpectedFileCode(items[wr.currentIndex].file_path) # "")
                  => wr.pc = "stat" /\ wr.calls = 0 /\ wr.bodies = 0
        /\ \A i \in LocalItems \cap Finished :
              LET r == results[i]
                  code == ExpectedFileCode(items[i].file_path)
              IN  IF code # ""
                  THEN /\ ~r.ok
                       /\ r.code = code
                       /\ r.attempts = 0
                       /\ r.bodiesBuilt = 0
                       /\ r.log = << >>
                  ELSE r.attempts >= 1

\* C12 witness: the call has returned the failure of an oversized file
C12_Witness ==
    /\ mainpc = "returned"
    /\ 0 \in LocalItems \cap Finished
    /\ items[0].file_path = FileBig
    /\ results[0].code = "file_too_large"
    /\ results[0].attempts = 0
    /\ toolResult.failed = 1

-----------------------------------------------------------------------------
(* Properties of a batch with failing items (SpecMixed).                   *)

\* The workers that are processing an item
Active == {w \in Workers : worker[w].pc # "done"}

\* The result is a success or a failure with an error code
IsTaggedResult(r) ==
    /\ r.filled
    /\ \/ r.ok /\ r.code = Null
       \/ ~r.ok /\ r.code \in {"file_not_found", "file_path_not_a_file", "file_empty",
                               "file_too_large", "groq_api_error", "unexpected_error"}

\* C13: every item that was processed has a result, a success or a failure
\* with a code, whatever failed for it; and the failure of one item stops
\* nothing: every other item is finished, being processed, or waiting for a
\* worker that is still running.
C13_EveryItemGetsAResult ==
    Dispatched =>
        /\ \A i \in Indices : written[i] = 1 => IsTaggedResult(results[i])
        /\ \A i \in Indices :
              \/ written[i] = 1
              \/ \E w \in Active : worker[w].currentIndex = i
              \/ i >= nextIndex /\ Active # {}
        /\ mainpc = "returned" => \A i \in Indices : IsTaggedResult(results[i])

\* C13 witness: the first item failed on a connection failure, the second on
\* its file, and the third was still processed and succeeded without its
\* artifact
C13_Witness ==
    /\ mainpc = "returned"
    /\ N = 3
    /\ results[0].code = "unexpected_error"
    /\ results[1].code = "file_not_found"
    /\ results[2].ok
    /\ results[2].save_error = ExistsError

-----------------------------------------------------------------------------
(* Properties of the batch answered by call order (SpecAlternate).         *)

\* C14: five URL items, concurrency 2, odd calls answered 200 and even calls
\* 400: the summary is total 5, ok 3, failed 2, and results[1] is a failure
\* with status 400 and code groq_api_error.
C14_AlternatingBatch ==
    (Dispatched /\ mainpc = "returned") =>
        /\ N = 5
        /\ toolResult.total = 5
        /\ toolResult.ok = 3
        /\ toolResult.failed = 2
        /\ ~toolResult.isError
        /\ ~results[1].ok
        /\ results[1].status = 400
        /\ results[1].code = "groq_api_error"
        /\ results[0].ok

\* C14 witness: the call has returned with the second and the fourth item
\* answered 400 and the fifth one saved
C14_Witness ==
    /\ mainpc = "returned"
    /\ N = 5
    /\ concurrency = 2
    /\ toolResult.ok = 3
    /\ results[1].status = 400
    /\ results[3].status = 400
    /\ results[4].saved

-----------------------------------------------------------------------------
(* Properties of the report (SpecMixed, Spec).                             *)

Succeeded == {i \in DOMAIN results : results[i].ok}
FailedItems == {i \in DOMAIN results : ~results[i].ok}

\* C15: in the report of a dispatch of N items, total = N, ok is the number
\* of results with ok = true, failed the number of results with ok = false,
\* and ok + failed = total.
C15_SummaryCountsResults ==
    (Dispatched /\ mainpc = "returned") =>
        /\ toolResult.total = N
        /\ toolResult.ok = Cardinality(Succeeded)
        /\ toolResult.failed = Cardinality(FailedItems)
        /\ toolResult.ok + toolResult.failed = toolResult.total

\* C15 witness: a report of three items, one failed, one saved, one a
\* success without its artifact
C15_Witness ==
    /\ mainpc = "returned"
    /\ toolResult.total = 3
    /\ toolResult.ok = 2
    /\ toolResult.failed = 1
    /\ \E i \in Succeeded : ~results[i].saved
    /\ \E i \in Succeeded : results[i].saved

\* C16: when every item fails the call still returns a report: N failure
\* results in input order and the summary total N, ok 0, failed N.
C16_AllFailedStillReports ==
    (Dispatched /\ mainpc = "returned" /\ Succeeded = {}) =>
        /\ toolResult.error = Null
        /\ DOMAIN results = Indices
        /\ \A i \in Indices :
              /\ IsTaggedResult(results[i])
              /\ results[i].index = i
              /\ results[i].code # Null
        /\ toolResult.total = N
        /\ toolResult.ok = 0
        /\ toolResult.failed = N

\* C16 witness: three items failed, each in its own way
C16_Witness ==
    /\ mainpc = "returned"
    /\ N = 3
    /\ Succeeded = {}
    /\ results[0].code = "groq_api_error"
    /\ results[1].code = "file_not_found"
    /\ results[2].code = "unexpected_error"
    /\ toolResult.failed = 3

\* C17: with a credential and an empty effective item list the call returns
\* the single error invalid_input and dispatches nothing: no worker, no
\* request, no file operation.
C17_EmptyListIsInvalidInput ==
    (apiKey \notin {Unset, ""} /\ N = 0) =>
        /\ mainpc \in {"start", "returned"}
        /\ NothingProcessed
        /\ mainpc = "returned" =>
              /\ toolResult.isError
              /\ toolResult.error = "invalid_input"
              /\ toolResult.total = 0

\* C17 witness: the call has returned for an empty list
C17_Witness ==
    /\ apiKey = ApiKey
    /\ N = 0
    /\ mainpc = "returned"
    /\ toolResult.error = "invalid_input"
    /\ NothingProcessed

-----------------------------------------------------------------------------
(* Properties of the transcript and of the artifact (SpecArtifact).        *)

\* The body parses as JSON, and what it parses to
BodyParses == JSONparse(sample.rawText).ok
ParsedBody == JSONparse(sample.rawText).value

\* The parsed body is an object with a member text that is a string
HasTextString ==
    /\ BodyParses
    /\ ParsedBody.type = "object"
    /\ \E k \in 1 .. Len(ParsedBody.members) :
          /\ ParsedBody.members[k][1] = <<"text">>
          /\ ParsedBody.members[k][2].type = "string"

TextString ==
    ParsedBody.members[CHOOSE k \in 1 .. Len(ParsedBody.members) :
                           ParsedBody.members[k][1] = <<"text">>][2].str

Extracted == sample.stage \in {"extracted", "saved", "parsed"}

\* C19: for the plain text encoding the transcript is the raw body text; for
\* a structured encoding it is the string member text of the parsed body when
\* the body parses and has one, and the raw body text otherwise.
C19_TranscriptOfBody ==
    Extracted =>
        sample.transcript =
            IF sample.response_format = "text" THEN sample.rawText
            ELSE IF HasTextString THEN TextString
            ELSE sample.rawText

\* C19 witness: a JSON body sent as text/plain under a structured encoding
\* gives its text member, and the state is past the extraction
C19_Witness ==
    /\ Extracted
    /\ sample.response_format = "verbose_json"
    /\ sample.contentType = "text/plain"
    /\ sample.rawText = TextOk
    /\ sample.transcript = <<"ok">>

\* The document read back from a JSON artifact, and its members
ReadBack == sample.readBack.value
ReadBackMember(key) ==
    ReadBack.members[CHOOSE k \in 1 .. Len(ReadBack.members) :
                         ReadBack.members[k][1] = key][2]

\* The artifact parses to a document whose transcript is the transcript of
\* the result and whose groq_response is the parsed body (null for a body
\* that does not parse)
RoundTrips ==
    /\ sample.readBack.ok
    /\ ReadBack.type = "object"
    /\ \E k \in 1 .. Len(ReadBack.members) : ReadBack.members[k][1] = <<"transcript">>
    /\ \E k \in 1 .. Len(ReadBack.members) : ReadBack.members[k][1] = <<"groq_response">>
    /\ ReadBackMember(<<"transcript">>) = JsonString(sample.transcript)
    /\ ReadBackMember(<<"groq_response">>) = (IF BodyParses THEN ParsedBody ELSE JsonNull)

\* The value holds a number that is not finite
RECURSIVE HasInfinity(_)
HasInfinity(v) ==
    \/ v.type = "number" /\ v.str = <<"Infinity">>
    \/ v.type = "object" /\ \E k \in 1 .. Len(v.members) : HasInfinity(v.members[k][2])

\* C18 as stated: every JSON artifact parses back to a document whose
\* transcript equals the transcript of the result and whose groq_response
\* equals the parsed upstream body.
C18_AsStated == sample.stage = "parsed" => RoundTrips

\* C18: a JSON artifact parses back to a document whose transcript equals the
\* transcript of the result and whose groq_response equals the parsed
\* upstream body, when every number of the body is a finite double.
C18_ArtifactRoundTrip ==
    (sample.stage = "parsed" /\ ~(BodyParses /\ HasInfinity(ParsedBody))) => RoundTrips

\* C18 witness: the artifact of a body whose text holds quotes was read back
C18_Witness ==
    /\ sample.stage = "parsed"
    /\ sample.response_format = "json"
    /\ sample.contentType = "application/json"
    /\ sample.transcript = <<"say", Quote, "hi", Quote>>
    /\ ReadBackMember(<<"transcript">>).str = <<"say", Quote, "hi", Quote>>
    /\ ReadBackMember(<<"groq_response">>) = ParsedBody
    /\ RoundTrips

-----------------------------------------------------------------------------
(* Properties of the item schema (SpecSchema).                             *)

\* The source fields of the item that are set
SourceFields == {"file_path", "path", "audio_path", "url"}
SetSources == {f \in SourceFields : sample.value[f] \notin {Absent, << >>}}

\* The item breaks no rule other than the choice of its source
OtherRulesKept ==
    /\ \A f \in SourceFields \cup {"save_as"} : sample.value[f] # << >>
    /\ sample.value.url \in {Absent, <<"https", ":", "/", "/", "example.com", "/", "a", ".", "wav">>}
    /\ sample.value.save_as \in {Absent, <<"intro", ".", "txt">>}

Accepted == sample.issues = {}

-----------------------------------------------------------------------------
(* Properties of the artifact paths under every save name (SpecNames).     *)

\* What follows "transcripts/" in a path
ChildName(filePath) == SubSeq(filePath, Len(TRANSCRIPTS_DIR) + 2, Len(filePath))

\* The path names an entry of the transcripts directory itself: it starts
\* with "transcripts/", and what follows is one segment that is neither
\* empty nor "." nor ".."
DirectChild(filePath) ==
    /\ Len(filePath) > Len(TRANSCRIPTS_DIR) + 1
    /\ SubSeq(filePath, 1, Len(TRANSCRIPTS_DIR) + 1) = TRANSCRIPTS_DIR \o <<"/">>
    /\ \A k \in DOMAIN ChildName(filePath) : ChildName(filePath)[k] \notin {"/", "\\"}
    /\ ChildName(filePath) \notin {<<".">>, <<".", ".">>}

\* The files a call has written
WrittenPaths == {p \in DOMAIN fs : fs[p] # OldFile}

\* C21: every path at which an artifact is written or about to be written,
\* under the default name or under any explicit save name, is a direct child
\* of the transcripts directory, and so is every saved_path reported.
C21_ArtifactsInsideTranscripts ==
    /\ \A p \in WrittenPaths : DirectChild(p)
    /\ \A w \in Workers : worker[w].pc \in {"write", "saved"} => DirectChild(worker[w].path)
    /\ \A i \in DOMAIN results : results[i].saved => DirectChild(results[i].saved_path)

\* C21 witness: the save name "../" was saved, as "transcripts/...txt"
C21_Witness ==
    /\ mainpc = "returned"
    /\ items[0].save_as = <<".", ".", "/">>
    /\ results[0].saved
    /\ results[0].saved_path = TRANSCRIPTS_DIR \o <<"/", ".", ".", ".", "txt">>
    /\ results[0].saved_path \in WrittenPaths


\* The last two tokens of the path are "." and the extension
EndsIn(filePath, ext) ==
    /\ Len(filePath) >= 2
    /\ filePath[Len(filePath) - 1] = "."
    /\ filePath[Len(filePath)] = ext

\* The same, without regard to the letter case of the extension
EndsInAnyCase(filePath, ext) ==
    /\ Len(filePath) >= 2
    /\ filePath[Len(filePath) - 1] = "."
    /\ toLowerCase(filePath[Len(filePath)]) = ext

\* The successes: the items whose result reports on an artifact
Transcribed == {i \in DOMAIN results : results[i].filled /\ results[i].ok}

\* The format reported follows the encoding, also when the save failed
FormatFollowsEncoding(i) ==
    /\ results[i].saved_format = "text" <=> response_format = "text"
    /\ results[i].saved_format = "json" <=> response_format \in {"json", "verbose_json"}

\* C22 as stated: the path of a saved artifact ends in .txt and saved_format
\* is text exactly when the encoding is text, otherwise the path ends in
\* .json and saved_format is json, also for a failed save.
C22_AsStated ==
    \A i \in Transcribed :
        /\ FormatFollowsEncoding(i)
        /\ results[i].saved =>
              /\ EndsIn(results[i].saved_path, "txt") <=> response_format = "text"
              /\ EndsIn(results[i].saved_path, "json") <=> response_format # "text"

\* C22: saved_format is text exactly when the encoding is text and json
\* otherwise, also for a failed save; the path of a saved artifact ends in
\* .txt exactly when the encoding is text and in .json otherwise, where an
\* extension supplied by the save name keeps its letter case.
C22_FormatFollowsEncoding ==
    \A i \in Transcribed :
        /\ FormatFollowsEncoding(i)
        /\ results[i].saved =>
              /\ EndsInAnyCase(results[i].saved_path, "txt") <=> response_format = "text"
              /\ EndsInAnyCase(results[i].saved_path, "json") <=> response_format # "text"

\* C22 witness: the save name "x.TXT" under the text encoding is saved as
\* text in "transcripts/x.TXT"
C22_Witness ==
    /\ mainpc = "returned"
    /\ response_format = "text"
    /\ items[0].save_as = <<"x", ".", "TXT">>
    /\ results[0].saved
    /\ results[0].saved_format = "text"
    /\ results[0].saved_path = TRANSCRIPTS_DIR \o <<"/", "x", ".", "TXT">>


-----------------------------------------------------------------------------
(* Properties of the last attempt of a request (Spec).                     *)

\* The request of item i ended with a retryable status
EndedRetryable(i) == IsRetryableStatus(Last(results[i].log))

\* The failure of item i reports the status and the attempt count of the
\* last attempt, which no sleep followed
LastAttemptReported(i) ==
    LET r == results[i] IN
    /\ Len(r.log) = maxRetries + 1
    /\ r.attempts = Len(r.log)
    /\ r.sleeps = Len(r.log) - 1
    /\ ~r.ok
    /\ r.code = "groq_api_error"
    /\ r.status = Last(r.log).status

\* No request sleeps after its last allowed attempt
NoSleepAfterLastAttempt ==
    \A w \in Workers :
        worker[w].pc \in {"discard", "sleep"} => worker[w].attempt <= maxRetries

\* C23 as stated: a retryable status on the last allowed attempt is returned
\* without a further sleep and the item fails with groq_api_error carrying
\* that status and the response body.
C23_AsStated ==
    Dispatched =>
        /\ NoSleepAfterLastAttempt
        /\ \A i \in Requested :
              EndedRetryable(i) =>
                  /\ LastAttemptReported(i)
                  /\ results[i].body = Body(i, Len(results[i].log))

\* C23: a retryable status on the last allowed attempt is returned without
\* a further sleep and the item fails with groq_api_error carrying that
\* status and the response body, whole when it has at most ERROR_BODY_LIMIT
\* characters and cut to its first ERROR_BODY_LIMIT characters, flagged
\* body_truncated, when it is longer.
C23_LastRetryableStatusReported ==
    Dispatched =>
        /\ NoSleepAfterLastAttempt
        /\ \A i \in Requested :
              EndedRetryable(i) =>
                  LET r == results[i]
                      whole == Body(i, Len(r.log))
                      long == ErrorBodyLength(r.status) > ERROR_BODY_LIMIT
                  IN  /\ LastAttemptReported(i)
                      /\ r.body_truncated = long
                      /\ r.body = IF long THEN [whole EXCEPT !.cut = ERROR_BODY_LIMIT]
                                          ELSE whole

\* C23 witness: two retries configured, 503 and 429 are retried, the 500 of
\* the third attempt is reported with its body whole
C23_Witness ==
    /\ Dispatched
    /\ maxRetries = 2
    /\ 0 \in Finished
    /\ results[0].log = <<Answered(503), Answered(429), Answered(500)>>
    /\ results[0].sleeps = 2
    /\ results[0].code = "groq_api_error"
    /\ results[0].status = 500
    /\ results[0].body = Body(0, 3)


-----------------------------------------------------------------------------
(* Properties of the worker pool's size (SpecWorkers).                     *)

IsNumber(x) == x.kind # "NaN"

\* x < i for a number x and an integer i
Below(x, i) == x.kind = "-Infinity" \/ (x.kind = "finite" /\ x.twice < 2 * i)

\* x > i for a number x and an integer i
Above(x, i) == x.kind = "+Infinity" \/ (x.kind = "finite" /\ x.twice > 2 * i)

\* min(max(1, floor(x)), n) for a number x and an integer n
ClampedFloor(x, n) ==
    CASE x.kind = "finite" -> Min(Max(1, x.twice \div 2), n)
      [] x.kind = "+Infinity" -> n
      [] x.kind = "-Infinity" -> Min(1, n)

\* C24: for a requested concurrency that is a number, mapWithConcurrency
\* starts min(max(1, floor(requested)), N) workers for N items: one worker
\* for a request below 1, N workers for a request above N, and for N = 0 no
\* worker, returning an empty list.
C24_WorkersStarted ==
    (sample.stage \in {"started", "returned"} /\ IsNumber(sample.maxConcurrency)) =>
        /\ sample.workers = ClampedFloor(sample.maxConcurrency, sample.length)
        /\ (Below(sample.maxConcurrency, 1) /\ sample.length >= 1) => sample.workers = 1
        /\ Above(sample.maxConcurrency, sample.length) => sample.workers = sample.length
        /\ sample.length = 0 =>
              /\ sample.workers = 0
              /\ sample.stage = "returned" => sample.slots = 0

\* C24 witness: a requested concurrency of 2.5 starts two workers for three
\* items
C24_Witness ==
    /\ sample.stage = "started"
    /\ sample.maxConcurrency = Number(5)
    /\ sample.length = 3
    /\ sample.workers = 2


-----------------------------------------------------------------------------
(* Properties of the backoff delays (SpecBackoff).                         *)

\* The sleeps made so far; sleep k follows failed attempt k
Sleeps == DOMAIN sample.delays

\* base * 2^(k-1), by repeated doubling
RECURSIVE Doubled(_, _)
Doubled(base, k) == IF k = 1 THEN base ELSE 2 * Doubled(base, k - 1)

\* The rounding of x * eighths / 8 is the largest integer r with
\* 16 * r <= 2 * x * eighths + 8.  n is not below it, n is not above it:
NotBelowRounded(n, x, eighths) == 16 * (n + 1) > 2 * x * eighths + 8
NotAboveRounded(n, x, eighths) == 16 * n <= 2 * x * eighths + 8

\* n is the rounding of x * jitter for the jitter of draw k
IsJittered(n, x, k) ==
    /\ 16 * RandomSteps * n <= 2 * x * (7 * RandomSteps + 2 * k) + 8 * RandomSteps
    /\ 16 * RandomSteps * (n + 1) > 2 * x * (7 * RandomSteps + 2 * k) + 8 * RandomSteps

\* The unjittered delay is base * 2^(k-1) and doubles from sleep to sleep
UnjitteredDoubles ==
    \A k \in Sleeps :
        /\ sample.backoffs[k] = Doubled(sample.retryBaseMs, k)
        /\ k > 1 => sample.backoffs[k] = 2 * sample.backoffs[k - 1]

\* Sleep k is the jittered delay, within the roundings of 0.875 and 1.125
\* times the unjittered one
WithinJitter(k) ==
    /\ IsJittered(sample.delays[k], sample.backoffs[k], sample.randoms[k])
    /\ NotBelowRounded(sample.delays[k], sample.backoffs[k], 7)
    /\ NotAboveRounded(sample.delays[k], sample.backoffs[k], 9)

\* C25 as stated: the delay slept after failed attempt k is the rounding of
\* base * 2^(k-1) times a jitter in [0.875, 1.125], never negative, never
\* below the rounding of 0.875 * base * 2^(k-1), never above that of 1.125 *
\* base * 2^(k-1), and the unjittered delay doubles.
C25_AsStated ==
    sample.stage \in {"retrying", "thrown"} =>
        /\ UnjitteredDoubles
        /\ \A k \in Sleeps : sample.delays[k] >= 0 /\ WithinJitter(k)

\* C25: the delay slept after failed attempt k is never negative; for a base
\* that is not negative it is the rounding of base * 2^(k-1) times a jitter
\* in [0.875, 1.125], between the roundings of 0.875 and of 1.125 times
\* base * 2^(k-1); for a negative base it is 0; the unjittered delay
\* base * 2^(k-1) doubles from one attempt to the next.
C25_BackoffDelay ==
    sample.stage \in {"retrying", "thrown"} =>
        /\ UnjitteredDoubles
        /\ \A k \in Sleeps :
              /\ sample.delays[k] >= 0
              /\ sample.retryBaseMs >= 0 => WithinJitter(k)
              /\ sample.retryBaseMs < 0 => sample.delays[k] = 0

\* C25 witness: base 250, draws 0 and 7/8: 219 ms after the first attempt
\* (0.875 * 250 = 218.75) and 547 ms after the second (1.09375 * 500 =
\* 546.875)
C25_Witness ==
    /\ sample.stage = "thrown"
    /\ sample.retryBaseMs = 250
    /\ sample.backoffs = <<250, 500>>
    /\ sample.randoms = <<0, 7>>
    /\ sample.delays = <<219, 547>>


-----------------------------------------------------------------------------
(* Properties of the request bodies (Spec).                                *)

\* No form occurs twice among the forms sent
SentOnce(sent) == \A p, q \in DOMAIN sent : p # q => sent[p] # sent[q]

\* The responses of the log, up to position n, that carried a status
StatusesUpTo(log, n) == {p \in 1 .. n : p <= Len(log) /\ IsStatus(log[p])}

\* One form was built for each attempt, and each attempt sent the form built
\* for it
OneBodyPerAttempt(attempts, bodies, sent) ==
    /\ bodies = attempts
    /\ Len(sent) = attempts
    /\ SentOnce(sent)
    /\ \A p \in DOMAIN sent : sent[p] = p

\* C26: the body factory is invoked exactly once per attempt (as many forms
\* are built as attempts are made), no form is sent twice, and the body of a
\* retryable response that is followed by another attempt has been discarded
\* when the backoff sleep begins.
C26_BodyRebuiltPerAttempt ==
    Dispatched =>
        /\ \A w \in Workers :
              LET wr == worker[w] IN
              /\ OneBodyPerAttempt(wr.calls, wr.bodies, wr.sent)
              /\ wr.pc = "fetch" => wr.calls = wr.attempt
              /\ wr.pc = "discard" =>
                    wr.discards = Cardinality(StatusesUpTo(wr.log, Len(wr.log) - 1))
              /\ wr.pc = "sleep" =>
                    wr.discards = Cardinality(StatusesUpTo(wr.log, Len(wr.log)))
        /\ \A i \in Requested :
              LET r == results[i] IN
              /\ OneBodyPerAttempt(r.attempts, r.bodiesBuilt, r.sent)
              /\ r.attempts = Len(r.log)
              /\ r.discards = Cardinality(StatusesUpTo(r.log, Len(r.log) - 1))

\* C26 witness: a 503, a connection failure and a 200: three forms built,
\* each sent once, and the body of the 503 discarded
C26_Witness ==
    /\ Dispatched
    /\ 0 \in Finished
    /\ results[0].log = <<Answered(503), Failed("network"), Answered(200)>>
    /\ results[0].bodiesBuilt = 3
    /\ results[0].sent = <<1, 2, 3>>
    /\ results[0].discards = 1


-----------------------------------------------------------------------------
(* Properties of the attempt timeouts (Spec).                              *)

IsAbort(entry) == entry.kind = "abort"

\* Every abort of a fetch was caused by the timer of that same attempt
OwnTimerOnly(abortedBy) == \A pair \in abortedBy : pair[1] = pair[2]

\* The attempts of a log that ended in an abort are those a timer aborted
AbortsOf(log) == {p \in DOMAIN log : IsAbort(log[p])}
AbortedAttempts(abortedBy) == {pair[2] : pair \in abortedBy}

\* C27: a timeout that expires while its attempt is outstanding aborts that
\* attempt and no other: the timer of attempt k never aborts an attempt j
\* other than k, and while an attempt is outstanding no timer of another
\* attempt is armed.  The abort counts as a transport failure: with attempts
\* remaining the request sleeps and makes the next attempt, on the last
\* attempt the abort is what the caller receives.
C27_TimeoutAbortsOwnAttempt ==
    Dispatched =>
        /\ \A w \in Workers :
              LET wr == worker[w] IN
              /\ OwnTimerOnly(wr.abortedBy)
              /\ AbortedAttempts(wr.abortedBy) = AbortsOf(wr.log)
              /\ wr.pc = "fetch" => wr.timers = {wr.attempt}
              /\ (wr.log # << >> /\ IsAbort(Last(wr.log))) =>
                    /\ Len(wr.log) <= maxRetries
                    /\ \/ wr.pc = "sleep" /\ wr.attempt = Len(wr.log)
                       \/ wr.pc = "fetch" /\ wr.attempt = Len(wr.log) + 1
        /\ \A i \in Requested :
              LET r == results[i] IN
              /\ OwnTimerOnly(r.abortedBy)
              /\ AbortedAttempts(r.abortedBy) = AbortsOf(r.log)
              /\ IsAbort(Last(r.log)) =>
                    /\ Len(r.log) = maxRetries + 1
                    /\ ~r.ok
                    /\ r.code = "unexpected_error"
                    /\ r.message = Exception("abort", Len(r.log))

\* C27 witness: the timer of the first attempt aborts the first attempt, the
\* second attempt is answered 200
C27_Witness ==
    /\ Dispatched
    /\ 0 \in Finished
    /\ results[0].log = <<Failed("abort"), Answered(200)>>
    /\ results[0].abortedBy = {<<1, 1>>}
    /\ results[0].ok


\* The timeout timers of the call of worker w that are armed
Armed(w) == worker[w].timers

\* fetchWithRetry is running for worker w
InFetchWithRetry(w) == worker[w].pc \in {"fetch", "discard", "sleep"}

\* C28: however fetchWithRetry is left (a 2xx response, a status that is not
\* retried, a retryable status on the last attempt, an exception), none of
\* its timeout timers is armed afterwards, and while it runs at most one of
\* them is armed.
C28_NoTimerLeftArmed ==
    Dispatched =>
        /\ \A w \in Workers :
              /\ Cardinality(Armed(w)) <= 1
              /\ ~InFetchWithRetry(w) => Armed(w) = {}
        /\ \A i \in Requested : results[i].timersLeft = {}

\* C28 witness: a request that was retried has returned a 2xx response, the
\* worker is saving the artifact and no timer is armed
C28_Witness ==
    /\ Dispatched
    /\ \E w \in Workers :
          /\ worker[w].pc = "write"
          /\ worker[w].log = <<Answered(503), Failed("abort"), Answered(200)>>
          /\ worker[w].fired = {2}
          /\ Armed(w) = {}


\* The request of worker w is between two attempts
BetweenAttempts(w) == worker[w].pc \in {"discard", "sleep"}

\* C29 as stated: the timer of an attempt is disarmed when the attempt has
\* produced its response or exception, before the backoff sleep begins, so
\* that no timer is armed, and none can fire, during a backoff sleep.
C29_AsStated ==
    Dispatched => \A w \in Workers : worker[w].pc = "sleep" => Armed(w) = {}

\* C29: the timer of an attempt is disarmed when the iteration of the
\* attempt ends: before fetchWithRetry returns or throws, and, when a retry
\* follows, after the backoff sleep, before the next attempt arms its own
\* timer.  Between the two attempts it is armed unless it has fired; a timer
\* that fires then aborts no attempt: the outcome of its attempt stands and
\* the next attempt is made.
C29_TimerDisarmedAfterSleep ==
    Dispatched =>
        \A w \in Workers :
            LET wr == worker[w] IN
            /\ BetweenAttempts(w) =>
                  /\ Armed(w) \subseteq {wr.attempt}
                  /\ Armed(w) = {} <=> wr.attempt \in wr.fired
            /\ wr.pc = "fetch" => Armed(w) = {wr.attempt}
            /\ ~InFetchWithRetry(w) => Armed(w) = {}
            /\ \A k \in wr.fired \ AbortedAttempts(wr.abortedBy) :
                  /\ k <= Len(wr.log)
                  /\ ~IsAbort(wr.log[k])
                  /\ \/ BetweenAttempts(w) /\ wr.attempt = k
                     \/ wr.calls > k

\* C29 witness: the connection of the first attempt failed and the timer of
\* that attempt has fired during the backoff sleep
C29_Witness ==
    /\ Dispatched
    /\ \E w \in Workers :
          /\ worker[w].pc = "sleep"
          /\ worker[w].log = <<Failed("network")>>
          /\ worker[w].fired = {1}
          /\ Armed(w) = {}


-----------------------------------------------------------------------------
(* Properties of the default naming (SpecSave).                            *)

\* Candidate k of the default naming of item i at the timestamp ts
CandidateOf(i, ts, k) ==
    Candidate(sanitizeSegment(deriveTranscriptBaseName(items[i])), ts, k,
              IF response_format = "text" THEN "txt" ELSE "json")

\* The lookups were made on the candidates in their order: unsuffixed, __2,
\* __3, ...
InCandidateOrder(i, ts, checked) ==
    \A k \in DOMAIN checked : checked[k].path = CandidateOf(i, ts, k)

\* Every lookup but the last found a file
AllButLastOnDisk(checked) ==
    \A k \in DOMAIN checked : k < Len(checked) => checked[k].onDisk

\* The reservation returned: the last candidate looked up, which was not on
\* disk, and is the first that was not
ReturnedFirstFree(i, ts, checked, filePath) ==
    /\ checked # << >>
    /\ InCandidateOrder(i, ts, checked)
    /\ AllButLastOnDisk(checked)
    /\ ~Last(checked).onDisk
    /\ filePath = Last(checked).path

\* The reservation failed: every candidate was looked up and was on disk
AllCandidatesOnDisk(i, ts, checked) ==
    /\ Len(checked) = SuffixLimit
    /\ InCandidateOrder(i, ts, checked)
    /\ \A k \in DOMAIN checked : checked[k].onDisk

\* C30: with default naming the path reserved is the first candidate, in
\* the order unsuffixed, __2, __3, ... up to the last suffix, that was not on
\* disk when it was looked up; the reservation fails as exhausted only when
\* every candidate was on disk when looked up; a path that was seen on disk
\* is never returned.
C30_FirstFreeCandidate ==
    Dispatched =>
        /\ \A w \in Workers :
              LET wr == worker[w] IN
              (wr.pc \in {"write", "saved"} /\ ~Named(wr.currentIndex)) =>
                  ReturnedFirstFree(wr.currentIndex, wr.ts, wr.checked, wr.path)
        /\ \A i \in Finished :
              LET r == results[i] IN
              (r.ok /\ ~Named(i)) =>
                  /\ r.save_error = ExhaustedError <=>
                        (r.checked # << >> /\ Last(r.checked).onDisk)
                  /\ r.save_error = ExhaustedError =>
                        \E ts \in {timestampSlug(t) : t \in 0 .. clock} :
                            AllCandidatesOnDisk(i, ts, r.checked)
                  /\ r.saved =>
                        \E ts \in {timestampSlug(t) : t \in 0 .. clock} :
                            ReturnedFirstFree(i, ts, r.checked, r.saved_path)

\* C30 witness: the unsuffixed candidate and __2 were on disk, __3 was
\* reserved and the artifact saved there
C30_Witness ==
    /\ Dispatched
    /\ 0 \in Finished
    /\ ~Named(0)
    /\ results[0].saved
    /\ Len(results[0].checked) = 3
    /\ results[0].saved_path = CandidateOf(0, timestampSlug(0), 3)


-----------------------------------------------------------------------------
(* Properties of the explicit save names (SpecNames).                      *)

\* The extension expected for the response encoding
ExpectedExtension == IF response_format = "text" THEN "txt" ELSE "json"

\* The save name of item i as a file name: trimmed and sanitized
SafeName(i) == sanitizeSegment(trim(items[i].save_as))

\* The extension the save name of item i carries, << >> when it carries none
CarriedExtension(i) == extensionOf(SafeName(i))

\* The carried extension is not the expected one; letter case is not
\* regarded
CarriesOtherExtension(i) ==
    /\ CarriedExtension(i) # << >>
    /\ [k \in DOMAIN CarriedExtension(i) |-> toLowerCase(CarriedExtension(i)[k])]
          # <<ExpectedExtension>>

\* The worker that holds item i is past the reservation of the path
Reserved(i) ==
    \E w \in Workers :
        worker[w].currentIndex = i /\ worker[w].pc \in {"exists", "write", "saved"}

-----------------------------------------------------------------------------
(* Properties of the text artifact (SpecArtifact).                         *)

\* A text artifact has been written
TextArtifactWritten ==
    /\ sample # NoSample
    /\ sample.stage = "saved"
    /\ sample.response_format = "text"

\* The text ends with a newline
EndsWithNewline(text) == Len(text) >= 1 /\ text[Len(text)] = LineFeed

\* C32: the content of a text artifact ends with a newline; it is the
\* transcript when the transcript ends with a newline and the transcript
\* followed by one newline otherwise; the rule applied to the content gives
\* the content again.
C32_TextEndsWithNewline ==
    TextArtifactWritten =>
        /\ EndsWithNewline(sample.contents)
        /\ EndsWithNewline(sample.transcript) => sample.contents = sample.transcript
        /\ ~EndsWithNewline(sample.transcript) =>
              sample.contents = sample.transcript \o <<LineFeed>>
        /\ withTrailingLineFeed(sample.contents) = sample.contents

\* C32 witness: the transcript "hello" followed by a newline was written as
\* it is
C32_Witness ==
    /\ TextArtifactWritten
    /\ sample.transcript = <<"hello", LineFeed>>
    /\ sample.contents = <<"hello", LineFeed>>


-----------------------------------------------------------------------------
(* Properties of the failure results (Spec).                               *)

\* The codes of the failure of an item
FailureCodes ==
    {"invalid_file_path", "file_not_found", "file_path_not_a_file", "file_empty",
     "file_too_large", "groq_api_error", "unexpected_error"}

\* The failure results of the items
FailureResults == {results[i] : i \in {k \in Finished : ~results[k].ok}}

CarriesStatus(r) == r.status # 0
CarriesBody(r) == r.body # NoBody

\* C33: the failure result of an item carries one of the seven codes; with
\* the code groq_api_error it carries the HTTP status and a body, with any
\* other code it carries neither.
C33_FailureCodes ==
    Dispatched =>
        \A r \in FailureResults :
            /\ r.code \in FailureCodes
            /\ r.code = "groq_api_error" => CarriesStatus(r) /\ CarriesBody(r)
            /\ r.code # "groq_api_error" => ~CarriesStatus(r) /\ ~CarriesBody(r)

\* C33 witness: the call has returned a failure with the code
\* groq_api_error, the status 404 and the body of the response
C33_Witness ==
    /\ mainpc = "returned"
    /\ \E r \in FailureResults :
          /\ r.code = "groq_api_error"
          /\ r.status = 404
          /\ r.body = [Body(0, 1) EXCEPT !.cut = ERROR_BODY_LIMIT]


-----------------------------------------------------------------------------
(* Properties of the artifact writes (SpecSave).                           *)

\* Every file on disk is still there after the step, with the same content
FilesKept == \A p \in DOMAIN fs : p \in DOMAIN fs' /\ fs'[p] = fs[p]

\* Worker w is at the write of its artifact and a file is at its path
WritingOverFile(w) ==
    /\ mainpc = "awaiting"
    /\ w \in Workers
    /\ worker[w].pc = "write"
    /\ worker[w].path \in DOMAIN fs

\* The step completes the write of worker w as a failed save: its item is
\* reported as a success that was not saved, with the already-exists error
WriteRefused(w) ==
    LET r == results'[worker[w].currentIndex] IN
    /\ r.filled
    /\ r.ok
    /\ ~r.saved
    /\ r.save_error = ExistsError

\* C34: no step changes or removes a file that is on disk, whether it was
\* there before the call or was written by another item of the call, under
\* explicit and default naming; the write of an artifact at a path where a
\* file is fails as a save error instead.
C34_NeverOverwrites ==
    [][/\ FilesKept
       /\ \A w \in WorkerIds :
             (WritingOverFile(w) /\ worker'[w].pc # "write") => WriteRefused(w)]_vars

\* C34 witness: the second of two items found the artifact of the first
\* at its default-named path; its save failed and the file holds the
\* content of the first
C34_Witness ==
    /\ mainpc = "returned"
    /\ N = 2
    /\ ~Named(0) /\ ~Named(1)
    /\ results[0].saved
    /\ results[1].ok
    /\ results[1].save_error = ExistsError
    /\ fs[results[0].saved_path] = Body(0, 1)
    /\ Last(results[1].checked).path = results[0].saved_path


-----------------------------------------------------------------------------
(* Properties of a request without a source (SpecFaults).                  *)

\* The items with neither file nor url
Unsourced == {i \in Indices : ~HasSource(items[i])}

\* C35 as stated: a request with neither file bytes nor a url fails at once:
\* fetch is not called for it, and it is not attempted again and no backoff
\* sleep is made before its failure is reported.
C35_MissingSourceFailsAtOnce ==
    Dispatched =>
        /\ \A w \in Workers :
              worker[w].currentIndex \in Unsourced =>
                  /\ worker[w].calls = 0
                  /\ worker[w].sleeps = 0
                  /\ worker[w].attempt <= 1
        /\ \A i \in Unsourced :
              results[i].filled =>
                  /\ ~results[i].ok
                  /\ results[i].attempts = 0
                  /\ results[i].sleeps = 0
                  /\ Len(results[i].log) = 1

\* With two retries configured the item without a source was attempted
\* three times, with two backoff sleeps and without a call of fetch, before
\* it was reported as an unexpected_error
C35_RetriedWithBackoff ==
    /\ mainpc = "returned"
    /\ maxRetries = 2
    /\ 0 \in Unsourced
    /\ ~results[0].ok
    /\ results[0].code = "unexpected_error"
    /\ results[0].attempts = 0
    /\ results[0].sleeps = 2
    /\ Len(results[0].log) = 3


-----------------------------------------------------------------------------
(* Properties of the transport failures in a batch (SpecFaults).           *)

\* The attempt ended in a transport exception: the connection failed or the
\* timeout aborted it
IsTransportException(entry) == entry.kind \in {"network", "abort"}

\* The finished items all of whose attempts ended in a transport exception
TransportFailed ==
    {i \in Finished :
        /\ results[i].log # << >>
        /\ \A k \in DOMAIN results[i].log : IsTransportException(results[i].log[k])}

\* The message of the exception the last attempt of item i ended in
LastExceptionMessage(i) ==
    <<Last(results[i].log).kind, ToString(Len(results[i].log))>>

\* The result of item j is the one its own attempts give: a success when
\* its last attempt was answered 200
OwnOutcome(j) ==
    (results[j].log # << >> /\ IsSuccessStatus(Last(results[j].log))) => results[j].ok

\* C36: an item all of whose attempts ended in a connection failure or a
\* timeout was attempted maxRetries + 1 times and is reported as a failure
\* with the code unexpected_error, the message of the last exception, no
\* status and no body; it is counted in summary.failed; every other item has
\* the result its own attempts give.
C36_TransportFailureReported ==
    Dispatched =>
        /\ \A i \in TransportFailed :
              /\ results[i].attempts = maxRetries + 1
              /\ Len(results[i].log) = maxRetries + 1
              /\ ~results[i].ok
              /\ results[i].code = "unexpected_error"
              /\ results[i].message = LastExceptionMessage(i)
              /\ results[i].status = 0
              /\ results[i].body = NoBody
              /\ \A j \in Finished \ {i} : OwnOutcome(j)
        /\ mainpc = "returned" =>
              /\ Finished = Indices
              /\ toolResult.failed = Cardinality({i \in Indices : ~results[i].ok})
              /\ toolResult.failed >= Cardinality(TransportFailed)
              /\ toolResult.ok = N - toolResult.failed

\* C36 witness: with two retries the first item timed out, then failed to
\* connect twice, and is reported as an unexpected_error after three
\* attempts, while the second item succeeded
C36_Witness ==
    /\ mainpc = "returned"
    /\ N = 2
    /\ maxRetries = 2
    /\ 0 \in TransportFailed
    /\ results[0].log = <<Failed("abort"), Failed("network"), Failed("network")>>
    /\ results[0].attempts = 3
    /\ results[0].code = "unexpected_error"
    /\ results[1].ok
    /\ toolResult.failed = 1
    /\ toolResult.ok = 1


-----------------------------------------------------------------------------
(* Properties of the backoff sleeps of a request (Spec).                   *)

\* The attempt failed in a way that is retried: a retryable status or an
\* exception
IsRetriedOutcome(entry) == IsRetryableStatus(entry) \/ IsException(entry)

\* The workers whose call of fetchWithRetry has returned a 2xx response
Saving == {w \in Workers : worker[w].pc \in {"mkdir", "exists", "write", "saved"}}

\* C37: the backoff sleeps of one fetchWithRetry call are one fewer than its
\* attempts, whether it returns or throws: none is made before the first
\* attempt, none after the last, and each follows an attempt that ended in
\* a retryable status or an exception and is followed by another attempt.
C37_SleepsBetweenAttempts ==
    Dispatched =>
        /\ \A w \in Workers :
              LET wr == worker[w] IN
              /\ wr.pc \in {"fetch", "discard"} => wr.sleeps = wr.attempt - 1
              /\ wr.pc = "sleep" =>
                    /\ wr.sleeps = wr.attempt
                    /\ wr.attempt <= maxRetries
                    /\ Len(wr.log) = wr.attempt
                    /\ IsRetriedOutcome(Last(wr.log))
              /\ w \in Saving => wr.sleeps = wr.attempt - 1 /\ Len(wr.log) = wr.attempt
        /\ \A i \in Requested :
              /\ results[i].sleeps = Len(results[i].log) - 1
              /\ results[i].attempts = Len(results[i].log)
              /\ \A k \in 1 .. (Len(results[i].log) - 1) :
                    IsRetriedOutcome(results[i].log[k])

\* C37 witness: a request whose first attempt was answered 503, whose second
\* failed to connect and whose third was answered 404 has ended after three
\* attempts and two sleeps
C37_Witness ==
    /\ mainpc = "returned"
    /\ 0 \in Requested
    /\ results[0].log = <<Answered(503), Failed("network"), Answered(404)>>
    /\ results[0].attempts = 3
    /\ results[0].sleeps = 2


-----------------------------------------------------------------------------
(* Properties of the error flag of the call (SpecMixed).                   *)

\* C38: the result of a call with one item is flagged isError exactly when
\* that item failed; the result of a call with two or more items is never
\* flagged isError, whatever the outcomes of its items, also when all of
\* them failed.
C38_ErrorFlagByBatchSize ==
    (Dispatched /\ mainpc = "returned") =>
        /\ N = 1 => (toolResult.isError <=> ~results[0].ok)
        /\ N >= 2 => ~toolResult.isError

\* C38 witness: both items of a batch of two failed and the result is not
\* flagged isError
C38_Witness ==
    /\ mainpc = "returned"
    /\ N = 2
    /\ ~results[0].ok
    /\ ~results[1].ok
    /\ toolResult.failed = 2
    /\ ~toolResult.isError


-----------------------------------------------------------------------------
(* Termination of the dispatch (SpecFaultsCompleted).                      *)

\* Every result slot has been written once and no worker holds an item
AllSlotsWritten ==
    /\ DOMAIN results = Indices
    /\ \A i \in Indices : results[i].filled /\ written[i] = 1 /\ claimed[i] = 1
    /\ InFlight = {}
    /\ \A w \in Workers : worker[w].pc = "done"

\* C39: when every attempt at the endpoint responds, fails or times out and
\* every file operation completes, a call that dispatches its items
\* returns; and mapWithConcurrency returns only when each of the N result
\* slots has been written and no item is in flight.
C39_DispatchTerminates ==
    /\ [](mainpc = "returned" => AllSlotsWritten)
    /\ (mainpc \in {"start", "awaiting"}) ~> (mainpc = "returned")

\* C39 witness: a batch of two has returned after its first item used up
\* two retries and its second was saved
C39_Witness ==
    /\ mainpc = "returned"
    /\ N = 2
    /\ AllSlotsWritten
    /\ results[0].sleeps = 2
    /\ ~results[0].ok
    /\ results[1].saved

=============================================================================
